---- MODULE Spec2Model ----
(***************************************************************************)
(* Build triggering and completion tracking of the Jenkins client scripts  *)
(* (jenkins_upload_build.py, jenkins_github_build.py,                      *)
(* trigger_build_improved.py): queue resolution, completion waiting and    *)
(* the orchestrating operations that compose them.                         *)
(*                                                                         *)
(* One invocation is a sequential flow; every collaborator call (an HTTP   *)
(* request or a python-jenkins call) is one step whose response is drawn   *)
(* from the responses the server or the transport can give.  Python's None *)
(* is modelled by 0 where the code only tests truthiness of a number.      *)
(***************************************************************************)
EXTENDS Integers, Sequences, FiniteSets, TLC

\* ------------------------------------------------------------------ bounds
\* Iteration budget of the resolvers (stands for max_wait = 120 / 60).
MaxWait == 3
\* Largest build number the server hands out in a single-invocation run.
MaxBuild == 2
\* Largest number of status polls of one completion wait that is explored
\* while the build is running (long enough for monitor_build to sleep past
\* WaitTimeout).
MaxPolls == 9
\* Largest number of collaborator calls of one operation that is explored
\* inside the attempts of _fallback_to_legacy_method (long enough for three
\* attempts, one of them with every poll reading the job's last build).
MaxCalls == 18
\* The wait_timeout / max_wait argument of the completion wait, in seconds
\* (stands for 1800).
WaitTimeout == 25

\* ----------------------------------------------------------- plain values
None == 0

Classes == {"upload", "github"}

\* Terminal results of a build; "NULL" is the JSON null of the build record.
Results == {"SUCCESS", "FAILURE", "ABORTED", "UNSTABLE", "NULL"}

\* ------------------------------------------------- queue item: one request
\* What GET /queue/item/{n}/api/json can answer.  status_code 0 stands for a
\* transport error (requests raises, or the body is no JSON).  The bodies of
\* a 200 answer are told apart as the resolvers tell them apart:
\*   "absent"     the body has no member "executable";
\*   "null"       the executable is JSON null;
\*   "falsy"      the executable is false, 0, "" or [];
\*   "empty"      the executable is the empty object {};
\*   "no_number"  the executable is a non-empty object without the key number;
\*   "object"     the executable is a non-empty object with the key number,
\*                whose value is the number given (None for null or 0);
\*   "malformed"  the body is null or a number instead of an object, or the
\*                executable is true, a non-zero number, a non-empty string
\*                or a non-empty list.
QueueResponses ==
    {[status_code |-> 200, executable |-> e, number |-> None] :
        e \in {"absent", "null", "falsy", "empty", "no_number", "malformed"}}
    \cup {[status_code |-> 200, executable |-> "object", number |-> n] : n \in 0..MaxBuild}
    \cup {[status_code |-> c, executable |-> "absent", number |-> None] : c \in {404, 500, 0}}

\* get_queue_item_info: the dict built from one response.  status_code 0 is
\* the absent key (queue_info.get("status_code") gives None).
get_queue_item_info(cls, resp) ==
    IF resp.status_code = 200
    THEN [success |-> TRUE, status_code |-> 0,
          executable |-> resp.executable, number |-> resp.number]
    ELSE IF resp.status_code = 404
    THEN [success |-> FALSE, status_code |-> 404,
          executable |-> "absent", number |-> None]
    ELSE IF resp.status_code = 0
    THEN [success |-> FALSE, status_code |-> 0,
          executable |-> "absent", number |-> None]
    ELSE [success |-> FALSE,
          status_code |-> IF cls = "upload" THEN resp.status_code ELSE 0,
          executable |-> "absent", number |-> None]

\* Variant of the loop body in which the branch that finds executable.number
\* prints the start line but lacks the return statement.
QueueIteration_no_return(cls, idx, queue_info) ==
    IF ~queue_info.success
    THEN IF queue_info.status_code = 404
         THEN [returns |-> TRUE, value |-> None, sleep |-> 0, printed |-> 1]
         ELSE [returns |-> FALSE, value |-> None, sleep |-> 2,
               printed |-> IF cls = "upload" THEN 1 ELSE 0]
    ELSE IF queue_info.executable \in {"malformed", "falsy"}
    THEN [returns |-> FALSE, value |-> None, sleep |-> 2, printed |-> 1]
    ELSE IF queue_info.executable \in {"absent", "null"}
    THEN [returns |-> FALSE, value |-> None, sleep |-> 1,
          printed |-> IF idx % 10 = 0 THEN 1 ELSE 0]
    ELSE [returns |-> FALSE, value |-> None,
          sleep |-> IF cls = "upload" THEN 1 ELSE 0,
          printed |-> IF cls = "upload" THEN 2 ELSE 1]

\* Variant of the loop body without the 404 branch: a 404 is retried like any
\* other failed poll.
QueueIteration_retry_404(cls, idx, queue_info) ==
    IF ~queue_info.success
    THEN [returns |-> FALSE, value |-> None, sleep |-> 2,
          printed |-> IF cls = "upload" THEN 1 ELSE 0]
    ELSE IF queue_info.executable \in {"malformed", "falsy"}
    THEN [returns |-> FALSE, value |-> None, sleep |-> 2, printed |-> 1]
    ELSE IF queue_info.executable \in {"absent", "null"}
    THEN [returns |-> FALSE, value |-> None, sleep |-> 1,
          printed |-> IF idx % 10 = 0 THEN 1 ELSE 0]
    ELSE IF queue_info.number # None
    THEN [returns |-> TRUE, value |-> queue_info.number, sleep |-> 0,
          printed |-> IF cls = "upload" THEN 2 ELSE 1]
    ELSE [returns |-> FALSE, value |-> None,
          sleep |-> IF cls = "upload" THEN 1 ELSE 0,
          printed |-> IF cls = "upload" THEN 1 ELSE 0]

\* One iteration of the for-loop of wait_for_build_start_by_queue, given the
\* dict of get_queue_item_info: whether the function returns, with what, how
\* long it sleeps and how many lines it prints (the upload class prints the
\* build number and the build URL when it returns a number).  On a malformed
\* body and on an executable that is neither null nor an object the loop body
\* raises; the except clause of the loop prints a line and sleeps 2 seconds
\* in both classes.  An executable object that is empty or has no number is
\* an executable without a build number.
QueueIteration(cls, idx, queue_info) ==
    IF ~queue_info.success
    THEN IF queue_info.status_code = 404
         THEN [returns |-> TRUE, value |-> None, sleep |-> 0, printed |-> 1]
         ELSE [returns |-> FALSE, value |-> None, sleep |-> 2,
               printed |-> IF cls = "upload" THEN 1 ELSE 0]
    ELSE IF queue_info.executable \in {"malformed", "falsy"}
    THEN [returns |-> FALSE, value |-> None, sleep |-> 2, printed |-> 1]
    ELSE IF queue_info.executable \in {"absent", "null"}
    THEN [returns |-> FALSE, value |-> None, sleep |-> 1,
          printed |-> IF idx % 10 = 0 THEN 1 ELSE 0]
    ELSE IF queue_info.number # None
    THEN [returns |-> TRUE, value |-> queue_info.number, sleep |-> 0,
          printed |-> IF cls = "upload" THEN 2 ELSE 1]
    ELSE [returns |-> FALSE, value |-> None,
          sleep |-> IF cls = "upload" THEN 1 ELSE 0,
          printed |-> IF cls = "upload" THEN 1 ELSE 0]

\* ------------------------------------------------------------- operations
\* The operations an invocation can be.  Each belongs to one class.
Ops ==
    {"trigger_build_and_wait_result_improved",
     "_trigger_build_and_wait_result_legacy",
     "upload_and_build", "upload_and_build_with_queue_api",
     "trigger_build", "trigger_and_wait",
     "wait_for_build_complete", "get_build_status_only",
     "trigger_build_requests"}

\* The operations that carry an artifact to upload.
UploadOps == {"upload_and_build", "upload_and_build_with_queue_api"}

ClassOf(o) ==
    IF o = "trigger_and_wait" THEN "github"
    ELSE IF o = "trigger_build" THEN "trigger"
    ELSE IF o = "trigger_build_requests" THEN "requests"
    ELSE "upload"

\* Operations whose failure dicts use the key "error" (the others "message").
ErrorKeyOps ==
    {"trigger_build_and_wait_result_improved",
     "_trigger_build_and_wait_result_legacy"}

VARIABLES
    op,                     \* the operation this invocation runs
    pc,                     \* its control point
    queue_item_number,      \* what build_job returned
    i,                      \* loop index of the running resolver
    polls,                  \* requests the running resolver has issued
    slept,                  \* seconds the running resolver has slept
    printed,                \* lines printed by the statements of the running
                            \* resolver's loop body (not by its helpers)
    qlog,                   \* responses the running resolver has received
    expected_build_number,  \* predictive strategy: last build + 1
    last_build_number,      \* last build read at entry (wait_for_build_start,
                            \* an attempt of _fallback_to_legacy_method)
    actual_build_number,    \* what the resolver returned (None = unresolved)
    resolution,             \* whether the resolver has returned, and how
    build,                 \* server: the record of the awaited build
    frozen,                 \* server: a finished build's record never changes
    build_complete,         \* monitor_build local
    build_result,           \* monitor_build local
    st_log,                 \* status observations of the running waiter
    console_fetches,        \* console requests of the running waiter
    flushes,                \* console requests made after build_complete
    mon_slept,              \* seconds the running waiter has slept
    mon_success,            \* what monitor_build returned
    elapsed,                \* status-only wait: time.time() - start_time
    result,                 \* dict returned by wait_for_build_complete
    ret,                    \* dict returned by the operation
    calls,                  \* collaborator calls issued so far, in order
    exists_answer,          \* what job_exists answered ("none" before the call)
    stage,                  \* upload_and_build_with_queue_api: the strategy in use
    retry,                  \* _fallback_to_legacy_method: loop index
    fb_slept,               \* _fallback_to_legacy_method: seconds slept between attempts
    server,                \* concurrent runs: the job's queue items and builds
    clients,                \* concurrent runs: the locals of each invocation
    tail,                   \* console tailing: the locals of monitor_build
    ansi,                   \* _clean_ansi_sequences: a text and its cleanings
    annot                   \* _process_console_output: a line and what it prints

vars ==
    <<server, clients, op, pc, queue_item_number, i, polls, slept, printed, qlog,
      expected_build_number, last_build_number, actual_build_number,
      resolution, build, frozen, build_complete, build_result, st_log, console_fetches,
      flushes, mon_slept, mon_success, elapsed, result, ret, calls,
      exists_answer, stage, retry, fb_slept, tail, ansi, annot>>

resolver_vars == <<i, polls, slept, printed, qlog>>
monitor_vars ==
    <<build_complete, build_result, st_log, console_fetches, flushes,
      mon_slept, mon_success>>
server_vars == <<build, frozen>>
fallback_vars == <<stage, retry, fb_slept>>
conc_vars == <<server, clients>>
text_vars == <<tail, ansi, annot>>
flow_vars ==
    <<op, pc, queue_item_number, i, polls, slept, printed, qlog,
      expected_build_number, last_build_number, actual_build_number,
      resolution, build, frozen, build_complete, build_result, st_log, console_fetches,
      flushes, mon_slept, mon_success, elapsed, result, ret, calls,
      exists_answer, stage, retry, fb_slept>>
seq_vars == <<flow_vars, text_vars>>

NoDict == [pending |-> TRUE]

Running == [building |-> TRUE, result |-> "NULL"]

\* The two invocations of a concurrent run.
Invocations == {1, 2}

\* The server of a concurrent run before any submission: no queue item, the
\* job's last build, no build running.
ServerInit(lastBuild) ==
    [items |-> <<>>, lastBuild |-> lastBuild, running |-> {}, foreign |-> 0]

\* The locals of an invocation of a concurrent run before its first statement.
ClientInit(cls) ==
    [pc |-> "build_job", cls |-> cls, queue_item_number |-> None, i |-> 0,
     polls |-> 0, actual_build_number |-> None]

\* No concurrent run takes place.
ConcIdle ==
    /\ server = ServerInit(0)
    /\ clients = [c \in Invocations |-> ClientInit("upload")]

\* No console is tailed and no text is cleaned.
TextIdle ==
    /\ tail = [pc |-> "idle"]
    /\ ansi = [pc |-> "idle"]
    /\ annot = [pc |-> "idle"]

\* The state after the operation was called and before its first statement.
Init ==
    /\ ConcIdle
    /\ TextIdle
    /\ op \in Ops
    /\ pc = IF op = "wait_for_build_complete" THEN "status_loop"
            ELSE IF op = "get_build_status_only" THEN "gso_queue"
            ELSE IF op = "trigger_build_requests" THEN "tb_post"
            ELSE "job_exists"
    /\ queue_item_number = None
    /\ i = 0 /\ polls = 0 /\ slept = 0 /\ printed = 0 /\ qlog = <<>>
    /\ expected_build_number = None
    /\ last_build_number = None
    /\ actual_build_number \in
         IF op = "wait_for_build_complete" THEN 1..MaxBuild ELSE {None}
    /\ resolution = "none"
    /\ build = Running
    /\ frozen \in BOOLEAN
    /\ build_complete = FALSE /\ build_result = "NULL"
    /\ st_log = <<>> /\ console_fetches = 0 /\ flushes = 0
    /\ mon_slept = 0 /\ mon_success = FALSE
    /\ elapsed = 0
    /\ result = NoDict
    /\ ret = NoDict
    /\ calls = <<>>
    /\ exists_answer = "none"
    /\ stage = "primary" /\ retry = 0 /\ fb_slept = 0

\* Variant of the except-handler that returns a dict without a success key.
ExceptionDict_no_success(o) ==
    IF o \in ErrorKeyOps
    THEN [error |-> "exception"]
    ELSE [message |-> "exception"]

\* The dict an operation's except-handler returns.
ExceptionDict(o) ==
    IF o \in ErrorKeyOps
    THEN [success |-> FALSE, error |-> "exception"]
    ELSE [success |-> FALSE, message |-> "exception"]

JobNotFoundDict(o) ==
    IF o \in ErrorKeyOps
    THEN [success |-> FALSE, error |-> "job_not_found"]
    ELSE [success |-> FALSE, message |-> "job_not_found"]

Return(d) ==
    /\ ret' = d
    /\ pc' = "done"

\* Variant of the first statement that goes on whatever job_exists answered.
JobExists_unchecked(answer) ==
    /\ pc = "job_exists"
    /\ calls' = Append(calls, "job_exists")
    /\ exists_answer' = answer
    /\ pc' = IF op = "_trigger_build_and_wait_result_legacy"
             THEN "get_current"
             ELSE IF op \in UploadOps THEN "file_check"
             ELSE "build_job"
    /\ ret' = ret
    /\ UNCHANGED <<conc_vars, text_vars, fallback_vars, resolution, op, queue_item_number,
                   resolver_vars, expected_build_number, last_build_number,
                   actual_build_number, server_vars, monitor_vars, elapsed,
                   result>>

\* self.server.job_exists(job_name): the first statement of every
\* python-jenkins based operation.
JobExists(answer) ==
    /\ pc = "job_exists"
    /\ calls' = Append(calls, "job_exists")
    /\ exists_answer' = answer
    /\ IF answer = "raise" THEN Return(ExceptionDict(op))
       ELSE IF answer = "absent" THEN Return(JobNotFoundDict(op))
       ELSE /\ pc' = IF op = "_trigger_build_and_wait_result_legacy"
                     THEN "get_current"
                     ELSE IF op \in UploadOps THEN "file_check"
                     ELSE "build_job"
            /\ ret' = ret
    /\ UNCHANGED <<conc_vars, text_vars, fallback_vars, resolution, op, queue_item_number, resolver_vars, expected_build_number,
                   last_build_number, actual_build_number, server_vars,
                   monitor_vars, elapsed, result>>

\* upload_and_build: Path(file_path).exists(), a local check.
FileCheck(exists) ==
    /\ pc = "file_check"
    /\ IF exists
       THEN pc' = "post" /\ ret' = ret
       ELSE Return([success |-> FALSE, message |-> "file_missing"])
    /\ UNCHANGED <<conc_vars, text_vars, exists_answer, fallback_vars, resolution, op, queue_item_number, resolver_vars, expected_build_number,
                   last_build_number, actual_build_number, server_vars,
                   monitor_vars, elapsed, result, calls>>

\* upload_and_build, upload_and_build_with_queue_api:
\* requests.post(.../buildWithParameters, files=...).
\* answer is the status code, or "timeout" / "raise" for the two handlers.
PostAnswers == {"201", "200", "500", "timeout", "raise"}

\* The Location header of the response: a queue item URL, absent, or a URL
\* that does not match /queue/item/(\d+)/.
Locations == {"queue_item", "missing", "no_match"}

\* The POST and the statements after it up to the call of a resolver.
\* upload_and_build ignores the Location header;
\* upload_and_build_with_queue_api reads the queue item number from it, or
\* goes on to _try_jenkins_library_method.
Post(answer, location, number) ==
    /\ pc = "post"
    /\ calls' = Append(calls, "post_build")
    /\ IF answer \in {"200", "201"}
       THEN /\ ret' = ret
            /\ IF op = "upload_and_build"
               THEN pc' = "wfs_baseline" /\ UNCHANGED queue_item_number
               ELSE IF location = "queue_item"
               THEN pc' = "queue_loop" /\ queue_item_number' = number
               ELSE pc' = "lib_build_job" /\ UNCHANGED queue_item_number
       ELSE /\ UNCHANGED queue_item_number
            /\ IF answer = "timeout"
               THEN Return([success |-> FALSE, message |-> "upload_timeout"])
               ELSE IF answer = "raise"
               THEN Return([success |-> FALSE, message |-> "exception"])
               ELSE Return([success |-> FALSE, message |-> "http_failed"])
    /\ UNCHANGED <<conc_vars, text_vars, exists_answer, fallback_vars, resolution, op, resolver_vars, expected_build_number,
                   last_build_number, actual_build_number, server_vars,
                   monitor_vars, elapsed, result>>

\* get_current_build_number: the job's last build number, None when the job
\* has no build or get_job_info raises (lastBuild 0 stands for "no build").
get_current_build_number(lastBuild, raised) ==
    IF raised THEN None ELSE lastBuild

\* _trigger_build_and_wait_result_legacy: the read before the submission.
GetCurrent(lastBuild, raised) ==
    /\ pc = "get_current"
    /\ calls' = Append(calls, "get_job_info")
    /\ expected_build_number' = get_current_build_number(lastBuild, raised) + 1
    /\ pc' = "build_job"
    /\ UNCHANGED <<conc_vars, text_vars, exists_answer, fallback_vars, resolution, op, queue_item_number, resolver_vars, last_build_number,
                   actual_build_number, server_vars, monitor_vars, elapsed,
                   result, ret>>

\* self.server.build_job(job_name[, parameters]): the submission.  It raises,
\* or returns the queue item number.
BuildJob(raised, number) ==
    /\ pc = "build_job"
    /\ calls' = Append(calls, "build_job")
    /\ IF raised
       THEN Return(ExceptionDict(op)) /\ UNCHANGED queue_item_number
       ELSE /\ queue_item_number' = number
            /\ pc' = IF op = "_trigger_build_and_wait_result_legacy"
                     THEN "predict_loop"
                     ELSE IF op = "trigger_build" THEN "wfs_baseline"
                     ELSE "queue_loop"
            /\ ret' = ret
    /\ UNCHANGED <<conc_vars, text_vars, exists_answer, fallback_vars, resolution, op, resolver_vars, expected_build_number, last_build_number,
                   actual_build_number, server_vars, monitor_vars, elapsed,
                   result>>

\* ---------------------------------------------- wait_for_build_start_by_queue
\* Variant of the loop that runs range(max_wait + 1): one iteration too many.
QueuePoll_one_more(resp) ==
    /\ pc = "queue_loop"
    /\ i <= MaxWait
    /\ LET step == QueueIteration(ClassOf(op), i, get_queue_item_info(ClassOf(op), resp))
       IN /\ polls' = polls + 1
          /\ qlog' = Append(qlog, resp)
          /\ slept' = slept + step.sleep
          /\ printed' = printed + step.printed
          /\ IF step.returns
             THEN /\ actual_build_number' = step.value
                  /\ pc' = "queue_ret"
                  /\ i' = i
             ELSE /\ i' = i + 1
                  /\ UNCHANGED <<actual_build_number, pc>>
    /\ calls' = Append(calls, "queue_item")
    /\ UNCHANGED <<conc_vars, text_vars, exists_answer, fallback_vars, resolution, op, queue_item_number, expected_build_number,
                   last_build_number, server_vars, monitor_vars, elapsed,
                   result, ret>>

\* Variant of the loop in which a failed poll does not use up an iteration.
QueuePoll_failed_not_counted(resp) ==
    /\ pc = "queue_loop"
    /\ i < MaxWait
    /\ LET step == QueueIteration(ClassOf(op), i, get_queue_item_info(ClassOf(op), resp))
       IN /\ polls' = polls + 1
          /\ qlog' = Append(qlog, resp)
          /\ slept' = slept + step.sleep
          /\ printed' = printed + step.printed
          /\ IF step.returns
             THEN /\ actual_build_number' = step.value
                  /\ pc' = "queue_ret"
                  /\ i' = i
             ELSE /\ i' = IF step.sleep = 2 THEN i ELSE i + 1
                  /\ UNCHANGED <<actual_build_number, pc>>
    /\ calls' = Append(calls, "queue_item")
    /\ UNCHANGED <<conc_vars, text_vars, exists_answer, fallback_vars, resolution, op, queue_item_number, expected_build_number,
                   last_build_number, server_vars, monitor_vars, elapsed,
                   result, ret>>

\* One iteration of the loop: one request, then return or sleep and go on.
QueuePoll(resp) ==
    /\ pc = "queue_loop"
    /\ i < MaxWait
    /\ LET step == QueueIteration(ClassOf(op), i, get_queue_item_info(ClassOf(op), resp))
       IN /\ polls' = polls + 1
          /\ qlog' = Append(qlog, resp)
          /\ slept' = slept + step.sleep
          /\ printed' = printed + step.printed
          /\ IF step.returns
             THEN /\ actual_build_number' = step.value
                  /\ pc' = "queue_ret"
                  /\ i' = i
             ELSE /\ i' = i + 1
                  /\ UNCHANGED <<actual_build_number, pc>>
    /\ calls' = Append(calls, "queue_item")
    /\ UNCHANGED <<conc_vars, text_vars, exists_answer, fallback_vars, resolution, op, queue_item_number, expected_build_number,
                   last_build_number, server_vars, monitor_vars, elapsed,
                   result, ret>>

\* range(max_wait) is used up: the timeout line, then return None.
QueueExhausted ==
    /\ pc = "queue_loop"
    /\ i = MaxWait
    /\ actual_build_number' = None
    /\ pc' = "queue_ret"
    /\ UNCHANGED <<conc_vars, text_vars, exists_answer, fallback_vars, resolution, op, queue_item_number, resolver_vars, expected_build_number,
                   last_build_number, server_vars, monitor_vars, elapsed,
                   result, ret, calls>>

\* ---------------------------------------------- wait_for_build_start_improved
\* What one iteration of the predictive resolver is answered: the pending
\* queue listing (is_job_in_queue; "raise" when get_queue_info raises), the
\* job's last build (0 = none or get_job_info raised) and the building flag of
\* that build ("raise" when get_build_info raises).  Answers to calls the
\* iteration does not make are "none" / 0.
PredictAnswers(expected) ==
    {r \in [in_queue : {"yes", "no", "raise"}, lastBuild : 0..MaxBuild,
            building : {"none", "true", "false", "raise"}] :
        /\ r.in_queue = "yes" => r.lastBuild = 0
        /\ (r.building # "none") <=>
              (r.in_queue # "yes" /\ r.lastBuild # 0 /\ r.lastBuild >= expected)}

\* is_job_in_queue: an exception counts as "not in the queue".
is_job_in_queue(answer) == answer = "yes"

\* Variant of the iteration that accepts the last build whether or not it is
\* reported as running.
PredictIteration_ignore_building(expected, r) ==
    IF is_job_in_queue(r.in_queue)
    THEN [returns |-> FALSE, value |-> None, sleep |-> 1, printed |-> 1]
    ELSE LET current_build_number == get_current_build_number(r.lastBuild, FALSE)
         IN IF /\ current_build_number # None
               /\ current_build_number >= expected
            THEN [returns |-> TRUE, value |-> current_build_number, sleep |-> 0,
                  printed |-> 1]
            ELSE [returns |-> FALSE, value |-> None, sleep |-> 1, printed |-> 0]

\* Variant of the iteration that accepts any running last build, also one
\* below the expected number.
PredictIteration_any_running(expected, r) ==
    IF is_job_in_queue(r.in_queue)
    THEN [returns |-> FALSE, value |-> None, sleep |-> 1, printed |-> 1]
    ELSE LET current_build_number == get_current_build_number(r.lastBuild, FALSE)
         IN IF /\ current_build_number # None
               /\ r.building = "true"
            THEN [returns |-> TRUE, value |-> current_build_number, sleep |-> 0,
                  printed |-> 1]
            ELSE [returns |-> FALSE, value |-> None, sleep |-> 1, printed |-> 0]

\* One iteration of the loop of wait_for_build_start_improved.
PredictIteration(expected, r) ==
    IF is_job_in_queue(r.in_queue)
    THEN [returns |-> FALSE, value |-> None, sleep |-> 1, printed |-> 1]
    ELSE LET current_build_number == get_current_build_number(r.lastBuild, FALSE)
         IN IF /\ current_build_number # None
               /\ current_build_number >= expected
               /\ r.building = "true"
            THEN [returns |-> TRUE, value |-> current_build_number, sleep |-> 0,
                  printed |-> 1]
            ELSE [returns |-> FALSE, value |-> None, sleep |-> 1, printed |-> 0]

\* The collaborator calls one iteration of the predictive resolver makes.
PredictCalls(r) ==
    <<"get_queue_info">>
    \o (IF r.in_queue = "yes" THEN <<>> ELSE <<"get_job_info">>)
    \o (IF r.building = "none" THEN <<>> ELSE <<"get_build_info">>)

\* For the job-name based resolvers qlog holds the answers of the last
\* iteration only.  Inside the attempts of _fallback_to_legacy_method the
\* exploration stops at MaxCalls collaborator calls.
PredictPoll(r) ==
    /\ pc = "predict_loop"
    /\ i < MaxWait
    /\ r \in PredictAnswers(expected_build_number)
    /\ stage = "fallback" => Len(calls) + Len(PredictCalls(r)) <= MaxCalls
    /\ LET step == PredictIteration(expected_build_number, r)
       IN /\ polls' = polls + 1
          /\ qlog' = <<r>>
          /\ slept' = slept + step.sleep
          /\ printed' = printed + step.printed
          /\ IF step.returns
             THEN /\ actual_build_number' = step.value
                  /\ pc' = "predict_ret"
                  /\ i' = i
             ELSE /\ i' = i + 1
                  /\ UNCHANGED <<actual_build_number, pc>>
    /\ calls' = calls \o PredictCalls(r)
    /\ UNCHANGED <<conc_vars, text_vars, exists_answer, fallback_vars, resolution, op, queue_item_number, expected_build_number,
                   last_build_number, server_vars, monitor_vars, elapsed,
                   result, ret>>

PredictExhausted ==
    /\ pc = "predict_loop"
    /\ i = MaxWait
    /\ actual_build_number' = None
    /\ pc' = "predict_ret"
    /\ UNCHANGED <<conc_vars, text_vars, exists_answer, fallback_vars, resolution, op, queue_item_number, resolver_vars, expected_build_number,
                   last_build_number, server_vars, monitor_vars, elapsed,
                   result, ret, calls>>

\* ------------------------------------------------------- wait_for_build_start
\* The read of the baseline at entry: get_job_info raising, or a job without
\* a build, leaves last_build_number None.
WfsBaseline(raised, lastBuild) ==
    /\ pc = "wfs_baseline"
    /\ calls' = Append(calls, "get_job_info")
    /\ last_build_number' = IF raised THEN None ELSE lastBuild
    /\ pc' = "wfs_loop"
    /\ UNCHANGED <<conc_vars, text_vars, exists_answer, fallback_vars, resolution, op, queue_item_number, resolver_vars, expected_build_number,
                   actual_build_number, server_vars, monitor_vars, elapsed,
                   result, ret>>

\* What one iteration of wait_for_build_start is answered: get_job_info
\* (raising or the last build, 0 = none) and the building flag of that build.
WfsAnswers(baseline) ==
    {r \in [job_raised : BOOLEAN, lastBuild : 0..MaxBuild,
            building : {"none", "true", "false", "raise"}] :
        /\ r.job_raised => r.lastBuild = 0
        /\ (r.building # "none") <=>
              (r.lastBuild # 0 /\ (baseline = None \/ r.lastBuild > baseline))}

\* Variant of the iteration that returns a new last build whether or not it
\* is reported as running.
WfsIteration_ignore_building(baseline, r) ==
    IF r.job_raised \/ r.building = "raise"
    THEN [returns |-> FALSE, value |-> None, sleep |-> 0, printed |-> 1]
    ELSE IF /\ r.lastBuild # 0
            /\ (baseline = None \/ r.lastBuild > baseline)
    THEN [returns |-> TRUE, value |-> r.lastBuild, sleep |-> 0, printed |-> 1]
    ELSE [returns |-> FALSE, value |-> None, sleep |-> 1, printed |-> 0]

\* One iteration of the loop of wait_for_build_start: an exception skips the
\* sleep.
WfsIteration(baseline, r) ==
    IF r.job_raised \/ r.building = "raise"
    THEN [returns |-> FALSE, value |-> None, sleep |-> 0, printed |-> 1]
    ELSE IF /\ r.lastBuild # 0
            /\ (baseline = None \/ r.lastBuild > baseline)
            /\ r.building = "true"
    THEN [returns |-> TRUE, value |-> r.lastBuild, sleep |-> 0, printed |-> 1]
    ELSE [returns |-> FALSE, value |-> None, sleep |-> 1, printed |-> 0]

WfsCalls(r) ==
    <<"get_job_info">>
    \o (IF r.building = "none" THEN <<>> ELSE <<"get_build_info">>)

WfsPoll(r) ==
    /\ pc = "wfs_loop"
    /\ i < MaxWait
    /\ r \in WfsAnswers(last_build_number)
    /\ LET step == WfsIteration(last_build_number, r)
       IN /\ polls' = polls + 1
          /\ qlog' = <<r>>
          /\ slept' = slept + step.sleep
          /\ printed' = printed + step.printed
          /\ IF step.returns
             THEN /\ actual_build_number' = step.value
                  /\ pc' = "wfs_ret"
                  /\ i' = i
             ELSE /\ i' = i + 1
                  /\ UNCHANGED <<actual_build_number, pc>>
    /\ calls' = calls \o WfsCalls(r)
    /\ UNCHANGED <<conc_vars, text_vars, exists_answer, fallback_vars, resolution, op, queue_item_number, expected_build_number,
                   last_build_number, server_vars, monitor_vars, elapsed,
                   result, ret>>

WfsExhausted ==
    /\ pc = "wfs_loop"
    /\ i = MaxWait
    /\ actual_build_number' = None
    /\ pc' = "wfs_ret"
    /\ UNCHANGED <<conc_vars, text_vars, exists_answer, fallback_vars, resolution, op, queue_item_number, resolver_vars, expected_build_number,
                   last_build_number, server_vars, monitor_vars, elapsed,
                   result, ret, calls>>

\* ------------------------------------------- the callers after the resolver
\* The locals of a resolver end with its call.
ResolverLocalsEnd ==
    /\ i' = 0 /\ polls' = 0 /\ slept' = 0 /\ printed' = 0 /\ qlog' = <<>>

\* Variant of the unresolved dict that carries a build_number of None.
UnresolvedDict_with_number(o, q) ==
    IF o = "trigger_build_and_wait_result_improved"
    THEN [success |-> FALSE, error |-> "wait_start_failed",
          build_number |-> None]
    ELSE IF o = "_trigger_build_and_wait_result_legacy"
    THEN [success |-> FALSE, error |-> "wait_start_timeout",
          build_number |-> None]
    ELSE IF o = "upload_and_build"
    THEN [success |-> TRUE, message |-> "triggered_no_build_number",
          uploaded_file |-> "file"]
    ELSE IF o = "trigger_build"
    THEN [success |-> TRUE, message |-> "triggered_no_build_number",
          queue_item_number |-> q]
    ELSE [success |-> FALSE, message |-> "wait_start_timeout",
          queue_item_number |-> q]

\* What the operation returns when its resolver returned None.
UnresolvedDict(o, q) ==
    IF o = "trigger_build_and_wait_result_improved"
    THEN [success |-> FALSE, error |-> "wait_start_failed"]
    ELSE IF o = "_trigger_build_and_wait_result_legacy"
    THEN [success |-> FALSE, error |-> "wait_start_timeout"]
    ELSE IF o = "upload_and_build"
    THEN [success |-> TRUE, message |-> "triggered_no_build_number",
          uploaded_file |-> "file"]
    ELSE IF o = "trigger_build"
    THEN [success |-> TRUE, message |-> "triggered_no_build_number",
          queue_item_number |-> q]
    ELSE [success |-> FALSE, message |-> "wait_start_timeout",
          queue_item_number |-> q]

\* Where the operation goes on when its resolver returned a build number.
AfterResolved(o) ==
    IF o \in ErrorKeyOps THEN "monitor_loop" ELSE "trigger_build_info"

\* The statement after the call of the resolver: `if not actual_build_number`
\* (`if build_number` in the trigger-only operations).
ResolverReturn ==
    /\ pc \in {"queue_ret", "predict_ret", "wfs_ret"}
    /\ op # "upload_and_build_with_queue_api"
    /\ IF actual_build_number = None
       THEN Return(UnresolvedDict(op, queue_item_number))
       ELSE pc' = AfterResolved(op) /\ ret' = ret
    /\ ResolverLocalsEnd
    /\ resolution' = IF actual_build_number = None THEN "unresolved" ELSE "resolved"
    /\ UNCHANGED <<conc_vars, text_vars, exists_answer, fallback_vars, op, queue_item_number, expected_build_number,
                   last_build_number, actual_build_number, server_vars,
                   monitor_vars, elapsed, result, calls>>

\* The dict of a trigger-only operation that resolved build b.
TriggeredDict(o, b, q) ==
    IF o = "upload_and_build"
    THEN [success |-> TRUE, message |-> "triggered", build_number |-> b,
          build_url |-> b, uploaded_file |-> "file"]
    ELSE [success |-> TRUE, message |-> "triggered", build_number |-> b,
          build_url |-> b, queue_item_number |-> q]

\* get_build_info(job_name, build_number) for the build URL; in
\* trigger_and_wait the caller then goes on to monitor_build (monitor=True)
\* or returns the dict of trigger_github_build (monitor=False).
TriggerBuildInfo(raised, monitor) ==
    /\ pc = "trigger_build_info"
    /\ calls' = Append(calls, "get_build_info")
    /\ IF raised
       THEN Return(ExceptionDict(op))
       ELSE IF op = "trigger_and_wait" /\ monitor
       THEN pc' = "monitor_loop" /\ ret' = ret
       ELSE Return(TriggeredDict(op, actual_build_number, queue_item_number))
    /\ UNCHANGED <<conc_vars, text_vars, exists_answer, fallback_vars, resolution, op, queue_item_number, resolver_vars, expected_build_number,
                   last_build_number, actual_build_number, server_vars,
                   monitor_vars, elapsed, result>>

\* ------------------------------------------ upload_and_build_with_queue_api
\* Attempts of _fallback_to_legacy_method: range(3).
FallbackRetries == 3
\* Seconds it sleeps between two attempts: time.sleep(5).
FallbackBackoff == 5

\* The dict returned when wait_for_build_start_by_queue returned None, in the
\* function itself and in _try_jenkins_library_method.
QueueApiUnresolvedDict(stg, q) ==
    [success |-> FALSE,
     message |-> IF stg = "primary" THEN "wait_start_failed"
                 ELSE "library_wait_start_timeout",
     queue_item_number |-> q, uploaded_file |-> "file"]

\* The dict returned for a resolved build whose get_build_info succeeded.
QueueApiTriggeredDict(stg, b, q) ==
    IF stg = "fallback"
    THEN [success |-> TRUE, message |-> "triggered_legacy", build_number |-> b,
          build_url |-> b, uploaded_file |-> "file"]
    ELSE [success |-> TRUE,
          message |-> IF stg = "primary" THEN "triggered_queue_api"
                      ELSE "triggered_library",
          build_number |-> b, queue_item_number |-> q, build_url |-> b,
          uploaded_file |-> "file"]

\* The dict after the last attempt of _fallback_to_legacy_method.
AllFailedDict == [success |-> FALSE, message |-> "all_methods_failed",
                  uploaded_file |-> "file"]

\* _try_jenkins_library_method gives up (build_job raised or returned no
\* queue item number, or an exception after it): _fallback_to_legacy_method
\* starts its first attempt.
EnterFallback ==
    /\ stage' = "fallback" /\ retry' = 0 /\ fb_slept' = fb_slept
    /\ pc' = "fb_get_current" /\ ret' = ret

\* Variant of the end of a failed attempt that sleeps after the last attempt
\* as well.
AttemptFailed_sleep_always ==
    /\ stage' = stage
    /\ fb_slept' = fb_slept + FallbackBackoff
    /\ retry' = retry + 1
    /\ IF retry < 2
       THEN pc' = "fb_get_current" /\ ret' = ret
       ELSE Return(AllFailedDict)

\* An attempt of _fallback_to_legacy_method failed: sleep and try again
\* unless it was the last one.
AttemptFailed ==
    /\ stage' = stage
    /\ IF retry < 2
       THEN /\ fb_slept' = fb_slept + FallbackBackoff
            /\ retry' = retry + 1
            /\ pc' = "fb_get_current" /\ ret' = ret
       ELSE /\ fb_slept' = fb_slept
            /\ retry' = retry + 1
            /\ Return(AllFailedDict)

\* Variant of _try_jenkins_library_method that submits the build a second
\* time when build_job returned no queue item number.
LibBuildJob_resubmit(raised, number) ==
    /\ pc = "lib_build_job"
    /\ IF raised \/ number = None
       THEN /\ calls' = calls \o <<"build_job", "build_job">>
            /\ EnterFallback /\ UNCHANGED queue_item_number
       ELSE /\ calls' = Append(calls, "build_job")
            /\ queue_item_number' = number
            /\ stage' = "library" /\ retry' = retry /\ fb_slept' = fb_slept
            /\ pc' = "queue_loop" /\ ret' = ret
    /\ UNCHANGED <<conc_vars, text_vars, exists_answer, resolution, op,
                   resolver_vars, expected_build_number, last_build_number,
                   actual_build_number, server_vars, monitor_vars, elapsed,
                   result>>

\* _try_jenkins_library_method: the build request is submitted again through
\* the client library.
LibBuildJob(raised, number) ==
    /\ pc = "lib_build_job"
    /\ calls' = Append(calls, "build_job")
    /\ IF raised \/ number = None
       THEN EnterFallback /\ UNCHANGED queue_item_number
       ELSE /\ queue_item_number' = number
            /\ stage' = "library" /\ retry' = retry /\ fb_slept' = fb_slept
            /\ pc' = "queue_loop" /\ ret' = ret
    /\ UNCHANGED <<conc_vars, text_vars, exists_answer, resolution, op, resolver_vars,
                   expected_build_number, last_build_number,
                   actual_build_number, server_vars, monitor_vars, elapsed,
                   result>>

\* Variant of the head of an attempt that expects the number it read.
FbGetCurrent_expect_observed(lastBuild, raised) ==
    /\ pc = "fb_get_current"
    /\ retry < FallbackRetries
    /\ calls' = Append(calls, "get_job_info")
    /\ last_build_number' = get_current_build_number(lastBuild, raised)
    /\ expected_build_number' = get_current_build_number(lastBuild, raised)
    /\ pc' = "predict_loop"
    /\ UNCHANGED <<conc_vars, text_vars, exists_answer, fallback_vars,
                   resolution, op, queue_item_number, resolver_vars,
                   actual_build_number, server_vars, monitor_vars, elapsed,
                   result, ret>>

\* _fallback_to_legacy_method: the head of an attempt, which reads the last
\* build number (current_build_number, kept in last_build_number) and
\* computes the expected one.
FbGetCurrent(lastBuild, raised) ==
    /\ pc = "fb_get_current"
    /\ retry < FallbackRetries
    /\ calls' = Append(calls, "get_job_info")
    /\ last_build_number' = get_current_build_number(lastBuild, raised)
    /\ expected_build_number' = get_current_build_number(lastBuild, raised) + 1
    /\ pc' = "predict_loop"
    /\ UNCHANGED <<conc_vars, text_vars, exists_answer, fallback_vars,
                   resolution, op, queue_item_number, resolver_vars,
                   actual_build_number, server_vars, monitor_vars, elapsed,
                   result, ret>>

\* The statement after a resolver returned, in upload_and_build_with_queue_api
\* and the two methods it falls back to.
QueueApiResolverReturn ==
    /\ pc \in {"queue_ret", "predict_ret"}
    /\ op = "upload_and_build_with_queue_api"
    /\ IF actual_build_number # None
       THEN pc' = "api_build_info" /\ ret' = ret /\ UNCHANGED fallback_vars
       ELSE IF stage = "fallback"
       THEN AttemptFailed
       ELSE /\ Return(QueueApiUnresolvedDict(stage, queue_item_number))
            /\ UNCHANGED fallback_vars
    /\ ResolverLocalsEnd
    /\ resolution' = IF actual_build_number = None THEN "unresolved" ELSE "resolved"
    /\ UNCHANGED <<conc_vars, text_vars, exists_answer, op, queue_item_number,
                   expected_build_number, last_build_number,
                   actual_build_number, server_vars, monitor_vars, elapsed,
                   result, calls>>

\* get_build_info for the build URL of the resolved build.  When it raises,
\* the handler of the method that is running takes over.
QueueApiBuildInfo(raised) ==
    /\ pc = "api_build_info"
    /\ calls' = Append(calls, "get_build_info")
    /\ IF ~raised
       THEN /\ Return(QueueApiTriggeredDict(stage, actual_build_number,
                                            queue_item_number))
            /\ UNCHANGED fallback_vars
       ELSE IF stage = "primary"
       THEN Return(ExceptionDict(op)) /\ UNCHANGED fallback_vars
       ELSE IF stage = "library"
       THEN EnterFallback
       ELSE AttemptFailed
    /\ UNCHANGED <<conc_vars, text_vars, exists_answer, resolution, op, queue_item_number,
                   resolver_vars, expected_build_number, last_build_number,
                   actual_build_number, server_vars, monitor_vars, elapsed,
                   result>>

\* ------------------------------------------------------------ the server
\* While an operation waits for the build, the build can end with a result.
WaitingPcs == {"monitor_loop", "monitor_end", "monitor_ret", "status_loop"}

BuildFinish(r) ==
    /\ pc \in WaitingPcs
    /\ build.building
    /\ build' = [building |-> FALSE, result |-> r]
    /\ UNCHANGED <<conc_vars, text_vars, exists_answer, fallback_vars, resolution, op, pc, queue_item_number, resolver_vars,
                   expected_build_number, last_build_number,
                   actual_build_number, frozen, monitor_vars, elapsed,
                   result, ret, calls>>

\* A server that does not keep a finished build's record frozen can replace
\* its result.
ServerRewrite(r) ==
    /\ pc \in WaitingPcs
    /\ ~frozen
    /\ ~build.building
    /\ r # build.result
    /\ build' = [building |-> FALSE, result |-> r]
    /\ UNCHANGED <<conc_vars, text_vars, exists_answer, fallback_vars, resolution, op, pc, queue_item_number, resolver_vars,
                   expected_build_number, last_build_number,
                   actual_build_number, frozen, monitor_vars, elapsed,
                   result, ret, calls>>

\* get_build_status: the dict built from get_build_info, or the failure dict
\* when it raises.
get_build_status(raised, info) ==
    IF raised
    THEN [success |-> FALSE, building |-> FALSE, result |-> "NULL"]
    ELSE [success |-> TRUE, building |-> info.building, result |-> info.result]

\* What a status observation is logged as.
Observation(status) ==
    IF ~status.success THEN "fail"
    ELSE IF status.building THEN "building"
    ELSE status.result

\* --------------------------------------------------------------- monitor_build
\* Variant of the loop that also ends once it has slept wait_timeout seconds.
MonitorPoll_with_deadline(st_raised, con_raised) ==
    /\ pc = "monitor_loop"
    /\ Len(st_log) < MaxPolls \/ ~build.building
    /\ LET status == get_build_status(st_raised, build)
       IN /\ st_log' = Append(st_log, Observation(status))
          /\ IF ~status.success
             THEN /\ pc' = "monitor_end"
                  /\ calls' = Append(calls, "get_build_info")
                  /\ UNCHANGED <<build_complete, build_result, console_fetches,
                                 flushes, mon_slept>>
             ELSE /\ build_complete' = ~status.building
                  /\ build_result' =
                        IF ~status.building THEN status.result ELSE build_result
                  /\ calls' = calls \o <<"get_build_info", "get_build_console_output">>
                  /\ console_fetches' = console_fetches + 1
                  /\ flushes' = flushes + (IF ~status.building THEN 1 ELSE 0)
                  /\ mon_slept' = mon_slept + (IF status.building THEN 3 ELSE 0)
                  /\ pc' = IF status.building /\ mon_slept + 3 < WaitTimeout
                           THEN "monitor_loop" ELSE "monitor_end"
    /\ UNCHANGED <<conc_vars, text_vars, exists_answer, fallback_vars, resolution, op,
                   queue_item_number, resolver_vars, expected_build_number,
                   last_build_number, actual_build_number, server_vars,
                   mon_success, elapsed, result, ret>>

\* One iteration of `while not build_complete`: the status request, then
\* (unless the status request failed, which breaks out of the loop) the
\* console request, then the sleep unless the build is complete.  The
\* exploration stops at MaxPolls requests that found the build running.
MonitorPoll(st_raised, con_raised) ==
    /\ pc = "monitor_loop"
    /\ Len(st_log) < MaxPolls \/ ~build.building
    /\ LET status == get_build_status(st_raised, build)
       IN /\ st_log' = Append(st_log, Observation(status))
          /\ IF ~status.success
             THEN /\ pc' = "monitor_end"
                  /\ calls' = Append(calls, "get_build_info")
                  /\ UNCHANGED <<build_complete, build_result, console_fetches,
                                 flushes, mon_slept>>
             ELSE /\ build_complete' = ~status.building
                  /\ build_result' =
                        IF ~status.building THEN status.result ELSE build_result
                  /\ calls' = calls \o <<"get_build_info", "get_build_console_output">>
                  /\ console_fetches' = console_fetches + 1
                  /\ flushes' = flushes + (IF ~status.building THEN 1 ELSE 0)
                  /\ mon_slept' = mon_slept + (IF status.building THEN 3 ELSE 0)
                  /\ pc' = IF status.building THEN "monitor_loop" ELSE "monitor_end"
    /\ UNCHANGED <<conc_vars, text_vars, exists_answer, fallback_vars, resolution, op, queue_item_number, resolver_vars, expected_build_number,
                   last_build_number, actual_build_number, server_vars,
                   mon_success, elapsed, result, ret>>

\* Variant of the return statement that counts every result but FAILURE as a
\* success.
MonitorResult_not_failure(br) == br # "FAILURE"

\* The value monitor_build returns.
MonitorResult(br) == br = "SUCCESS"

\* After the loop: the summary (JenkinsUploadBuilder only, one more
\* get_build_info whose outcome is only printed) and the return.
MonitorEnd ==
    /\ pc = "monitor_end"
    /\ calls' = IF ClassOf(op) = "upload"
                THEN Append(calls, "get_build_info") ELSE calls
    /\ mon_success' = MonitorResult(build_result)
    /\ pc' = "monitor_ret"
    /\ UNCHANGED <<conc_vars, text_vars, exists_answer, fallback_vars, resolution, op, queue_item_number, resolver_vars, expected_build_number,
                   last_build_number, actual_build_number, server_vars,
                   build_complete, build_result, st_log, console_fetches,
                   flushes, mon_slept, elapsed, result, ret>>

\* Variant of the dict that takes success from the build-info query made
\* after the loop.
WaitCompleteDict_success_from_query(success, raised, info, b) ==
    IF raised
    THEN [success |-> FALSE, error |-> "get_build_info_failed", build_number |-> b]
    ELSE [success |-> info.result = "SUCCESS", result |-> info.result,
          duration |-> IF info.building THEN 0 ELSE 1,
          url |-> b, build_number |-> b]

\* wait_for_build_complete(show_logs=True) after monitor_build returned: the
\* dict built from one more get_build_info, or the failure dict when it raises.
WaitCompleteDict(success, raised, info, b) ==
    IF raised
    THEN [success |-> FALSE, error |-> "get_build_info_failed", build_number |-> b]
    ELSE [success |-> success, result |-> info.result,
          duration |-> IF info.building THEN 0 ELSE 1,
          url |-> b, build_number |-> b]

\* trigger_and_wait after monitor_build returned.
TriggerAndWaitDict(success, raised, info, b) ==
    IF raised
    THEN [success |-> FALSE, error |-> "get_build_info_failed"]
    ELSE [success |-> success, status |-> info.result,
          message |-> IF success THEN "build_successful" ELSE "build_failed",
          build_number |-> b,
          duration |-> IF info.building THEN 0 ELSE 1,
          url |-> b]

\* The statement after monitor_build returned, in wait_for_build_complete and
\* in trigger_and_wait.
MonitorReturn(raised) ==
    /\ pc = "monitor_ret"
    /\ calls' = Append(calls, "get_build_info")
    /\ IF op = "trigger_and_wait"
       THEN /\ Return(TriggerAndWaitDict(mon_success, raised, build, actual_build_number))
            /\ result' = result
       ELSE /\ result' = WaitCompleteDict(mon_success, raised, build, actual_build_number)
            /\ pc' = "wfc_ret"
            /\ ret' = ret
    /\ UNCHANGED <<conc_vars, text_vars, exists_answer, fallback_vars, resolution, op, queue_item_number, resolver_vars, expected_build_number,
                   last_build_number, actual_build_number, server_vars,
                   monitor_vars, elapsed>>

\* The status string of the last branch: build_result or "UNKNOWN".
StatusString(build_res) ==
    IF build_res = "NULL" THEN "UNKNOWN" ELSE build_res

\* trigger_build_and_wait_result_improved / _legacy: the dict assembled from
\* the dict of wait_for_build_complete.
AssembleResult(o, res, b, q) ==
    LET base ==
          IF res.success
          THEN [success |-> res.result = "SUCCESS",
                status |-> StatusString(res.result),
                message |-> IF res.result \in {"SUCCESS", "FAILURE", "ABORTED"}
                            THEN res.result ELSE "ended",
                build_number |-> b, duration |-> res.duration,
                url |-> res.url, console_output |-> "console"]
          ELSE [success |-> FALSE,
                error |-> IF "error" \in DOMAIN res THEN res.error ELSE "build_failed",
                build_number |-> b]
    IN IF o = "trigger_build_and_wait_result_improved"
       THEN [k \in DOMAIN base \cup {"queue_item_number"} |->
                IF k = "queue_item_number" THEN q ELSE base[k]]
       ELSE base

\* The statement after wait_for_build_complete returned; the success branch
\* first fetches the console text (get_console_output never raises).
WaitCompleteReturn ==
    /\ pc = "wfc_ret"
    /\ calls' = IF result.success
                THEN Append(calls, "get_build_console_output") ELSE calls
    /\ Return(AssembleResult(op, result, actual_build_number, queue_item_number))
    /\ UNCHANGED <<conc_vars, text_vars, exists_answer, fallback_vars, resolution, op, queue_item_number, resolver_vars, expected_build_number,
                   last_build_number, actual_build_number, server_vars,
                   monitor_vars, elapsed, result>>

\* ------------------------------------ wait_for_build_complete(show_logs=False)
\* Seconds a get_build_info call can take.
Latencies == {0, 1}

\* The dict returned at a poll that finds the build not building.
StatusOnlyDict(info, b) ==
    [success |-> TRUE, result |-> info.result,
     duration |-> IF info.building THEN 0 ELSE 1,
     url |-> b, build_number |-> b]

\* Variant of the loop that polls without looking at the deadline.
StatusPoll_no_deadline(raised, latency) ==
    /\ pc = "status_loop"
    /\ calls' = Append(calls, "get_build_info")
    /\ LET status == get_build_status(raised, build)
       IN /\ st_log' = Append(st_log, Observation(status))
          /\ IF status.success /\ ~status.building
             THEN /\ Return(StatusOnlyDict(build, actual_build_number))
                  /\ elapsed' = elapsed + latency
                  /\ mon_slept' = mon_slept
             ELSE /\ elapsed' = elapsed + latency + 10
                  /\ mon_slept' = mon_slept + 10
                  /\ UNCHANGED <<pc, ret>>
    /\ UNCHANGED <<conc_vars, text_vars, exists_answer, fallback_vars, resolution, op,
                   queue_item_number, resolver_vars, expected_build_number,
                   last_build_number, actual_build_number, server_vars,
                   build_complete, build_result, console_fetches, flushes,
                   mon_success, result>>

\* One iteration of `while time.time() - start_time < max_wait`: the request,
\* the return when the build is not building, else the 10 second sleep.
StatusPoll(raised, latency) ==
    /\ pc = "status_loop"
    /\ elapsed < WaitTimeout
    /\ calls' = Append(calls, "get_build_info")
    /\ LET status == get_build_status(raised, build)
       IN /\ st_log' = Append(st_log, Observation(status))
          /\ IF status.success /\ ~status.building
             THEN /\ Return(StatusOnlyDict(build, actual_build_number))
                  /\ elapsed' = elapsed + latency
                  /\ mon_slept' = mon_slept
             ELSE /\ elapsed' = elapsed + latency + 10
                  /\ mon_slept' = mon_slept + 10
                  /\ UNCHANGED <<pc, ret>>
    /\ UNCHANGED <<conc_vars, text_vars, exists_answer, fallback_vars, resolution, op, queue_item_number, resolver_vars, expected_build_number,
                   last_build_number, actual_build_number, server_vars,
                   build_complete, build_result, console_fetches, flushes,
                   mon_success, result>>

\* Variant of the timeout that stops the remote build before it returns.
StatusTimeout_stop_build ==
    /\ pc = "status_loop"
    /\ elapsed >= WaitTimeout
    /\ Return([success |-> FALSE, error |-> "wait_timeout",
               build_number |-> actual_build_number])
    /\ calls' = Append(calls, "stop_build")
    /\ build' = [building |-> FALSE, result |-> "ABORTED"]
    /\ UNCHANGED <<conc_vars, text_vars, exists_answer, fallback_vars,
                   resolution, op, queue_item_number, resolver_vars,
                   expected_build_number, last_build_number,
                   actual_build_number, frozen, monitor_vars, elapsed,
                   result>>

\* The loop condition fails: the timeout dict.
StatusTimeout ==
    /\ pc = "status_loop"
    /\ elapsed >= WaitTimeout
    /\ Return([success |-> FALSE, error |-> "wait_timeout",
               build_number |-> actual_build_number])
    /\ UNCHANGED <<conc_vars, text_vars, exists_answer, fallback_vars, resolution, op, queue_item_number, resolver_vars, expected_build_number,
                   last_build_number, actual_build_number, server_vars,
                   monitor_vars, elapsed, result, calls>>

\* ------------------------------------------------------ get_build_status_only
\* Variant of the classification that reports every result other than
\* SUCCESS as FAILURE.
get_build_status_only_two_way(in_queue, last, raised, build_res) ==
    IF in_queue
    THEN [success |-> TRUE, status |-> "PENDING", message |-> "pending"]
    ELSE IF last = None
    THEN [success |-> FALSE, error |-> "no_build_record"]
    ELSE IF raised
    THEN [success |-> FALSE, error |-> "get_status_failed"]
    ELSE IF build_res = "NULL"
    THEN [success |-> TRUE, status |-> "BUILDING", message |-> "building",
          build_number |-> last, url |-> last]
    ELSE [success |-> TRUE,
          status |-> IF build_res = "SUCCESS" THEN "SUCCESS" ELSE "FAILURE",
          message |-> IF build_res = "SUCCESS" THEN "SUCCESS" ELSE "FAILURE",
          build_number |-> last, url |-> last, duration |-> 1]

\* The dict get_build_status_only returns, given what is_job_in_queue
\* answered, the number get_current_build_number returned, whether
\* get_build_info raised and the result it reported ("NULL" is None).
get_build_status_only(in_queue, last, raised, build_res) ==
    IF in_queue
    THEN [success |-> TRUE, status |-> "PENDING", message |-> "pending"]
    ELSE IF last = None
    THEN [success |-> FALSE, error |-> "no_build_record"]
    ELSE IF raised
    THEN [success |-> FALSE, error |-> "get_status_failed"]
    ELSE IF build_res = "NULL"
    THEN [success |-> TRUE, status |-> "BUILDING", message |-> "building",
          build_number |-> last, url |-> last]
    ELSE [success |-> TRUE, status |-> build_res,
          message |-> IF build_res \in {"SUCCESS", "FAILURE"}
                      THEN build_res ELSE "raw",
          build_number |-> last, url |-> last, duration |-> 1]

\* The first statement: is_job_in_queue, which reads the pending-queue
\* listing; a listed job is reported PENDING at once.
GsoQueue(answer) ==
    /\ pc = "gso_queue"
    /\ calls' = Append(calls, "get_queue_info")
    /\ qlog' = <<[in_queue |-> answer]>>
    /\ IF is_job_in_queue(answer)
       THEN Return(get_build_status_only(TRUE, None, FALSE, "NULL"))
       ELSE pc' = "gso_current" /\ ret' = ret
    /\ UNCHANGED <<conc_vars, text_vars, exists_answer, fallback_vars,
                   resolution, op, queue_item_number, i, polls, slept,
                   printed, expected_build_number, last_build_number,
                   actual_build_number, server_vars, monitor_vars, elapsed,
                   result>>

\* get_current_build_number: a job without a build is a failure.
GsoCurrent(lastBuild, raised) ==
    /\ pc = "gso_current"
    /\ calls' = Append(calls, "get_job_info")
    /\ last_build_number' = get_current_build_number(lastBuild, raised)
    /\ IF get_current_build_number(lastBuild, raised) = None
       THEN Return(get_build_status_only(FALSE, None, FALSE, "NULL"))
       ELSE pc' = "gso_info" /\ ret' = ret
    /\ UNCHANGED <<conc_vars, text_vars, exists_answer, fallback_vars,
                   resolution, op, queue_item_number, resolver_vars,
                   expected_build_number, actual_build_number, server_vars,
                   monitor_vars, elapsed, result>>

\* get_build_info of the last build and the classification of its result.
GsoBuildInfo(raised, r) ==
    /\ pc = "gso_info"
    /\ calls' = Append(calls, "get_build_info")
    /\ build_result' = IF raised THEN build_result ELSE r
    /\ Return(get_build_status_only(FALSE, last_build_number, raised, r))
    /\ UNCHANGED <<conc_vars, text_vars, exists_answer, fallback_vars,
                   resolution, op, queue_item_number, resolver_vars,
                   expected_build_number, last_build_number,
                   actual_build_number, server_vars, build_complete, st_log,
                   console_fetches, flushes, mon_slept, mon_success, elapsed,
                   result>>

\* ------------------------------------- trigger_build.py (requests-based variant)
\* What the GET of queue_url + "api/json" is answered: the answers of the
\* queue item resource.
TbResponses == QueueResponses

\* Variant of the iteration that gives up on a 404.
TbIteration_stop_on_404(resp) ==
    IF resp.status_code = 0
    THEN [returns |-> FALSE, value |-> None, sleep |-> 0, printed |-> 1]
    ELSE IF resp.status_code = 404
    THEN [returns |-> TRUE, value |-> None, sleep |-> 0, printed |-> 0]
    ELSE IF resp.status_code = 200 /\ resp.executable = "object"
    THEN [returns |-> TRUE, value |-> resp.number, sleep |-> 0, printed |-> 1]
    ELSE IF resp.status_code = 200
            /\ resp.executable \in {"no_number", "malformed"}
    THEN [returns |-> FALSE, value |-> None, sleep |-> 0, printed |-> 1]
    ELSE [returns |-> FALSE, value |-> None, sleep |-> 1, printed |-> 0]

\* One iteration of the loop of JenkinsTrigger.wait_for_build_start.  A
\* request that raises (status_code 0), a non-empty executable object without
\* the key number (KeyError) and a malformed body (TypeError) are caught and
\* skip the sleep; a non-empty executable object with the key number is
\* returned on, with its number; every other answer is slept on, also an
\* executable that is falsy (null, false, 0, "", [], {}).
TbIteration(resp) ==
    IF resp.status_code = 0
    THEN [returns |-> FALSE, value |-> None, sleep |-> 0, printed |-> 1]
    ELSE IF resp.status_code = 200 /\ resp.executable = "object"
    THEN [returns |-> TRUE, value |-> resp.number, sleep |-> 0, printed |-> 1]
    ELSE IF resp.status_code = 200
            /\ resp.executable \in {"no_number", "malformed"}
    THEN [returns |-> FALSE, value |-> None, sleep |-> 0, printed |-> 1]
    ELSE [returns |-> FALSE, value |-> None, sleep |-> 1, printed |-> 0]

\* JenkinsTrigger.trigger_build up to the call of its resolver: the POST, with
\* no job_exists before it.  Only 201 goes on; the Location header is the
\* queue URL (queue_item_number stands for it, None when it is missing), and
\* the resolver returns None at once when it is missing.
TbPost(answer, location) ==
    /\ pc = "tb_post"
    /\ calls' = Append(calls, "post_build")
    /\ IF answer = "201"
       THEN /\ ret' = ret
            /\ queue_item_number' = IF location = "missing" THEN None ELSE 1
            /\ pc' = IF location = "missing" THEN "tb_ret" ELSE "tb_loop"
       ELSE /\ UNCHANGED queue_item_number
            /\ IF answer \in {"timeout", "raise"}
               THEN Return([success |-> FALSE, message |-> "network_failed"])
               ELSE Return([success |-> FALSE, message |-> "http_failed",
                            details |-> "text"])
    /\ UNCHANGED <<conc_vars, text_vars, exists_answer, fallback_vars,
                   resolution, op, resolver_vars, expected_build_number,
                   last_build_number, actual_build_number, server_vars,
                   monitor_vars, elapsed, result>>

\* One iteration of `for i in range(max_wait)`.
TbPoll(resp) ==
    /\ pc = "tb_loop"
    /\ i < MaxWait
    /\ LET step == TbIteration(resp)
       IN /\ polls' = polls + 1
          /\ qlog' = Append(qlog, resp)
          /\ slept' = slept + step.sleep
          /\ printed' = printed + step.printed
          /\ IF step.returns
             THEN /\ actual_build_number' = step.value
                  /\ pc' = "tb_ret"
                  /\ i' = i
             ELSE /\ i' = i + 1
                  /\ UNCHANGED <<actual_build_number, pc>>
    /\ calls' = Append(calls, "queue_item")
    /\ UNCHANGED <<conc_vars, text_vars, exists_answer, fallback_vars,
                   resolution, op, queue_item_number, expected_build_number,
                   last_build_number, server_vars, monitor_vars, elapsed,
                   result, ret>>

\* range(max_wait) is used up: the timeout line, then return None.
TbExhausted ==
    /\ pc = "tb_loop"
    /\ i = MaxWait
    /\ actual_build_number' = None
    /\ pc' = "tb_ret"
    /\ UNCHANGED <<conc_vars, text_vars, exists_answer, fallback_vars,
                   resolution, op, queue_item_number, resolver_vars,
                   expected_build_number, last_build_number, server_vars,
                   monitor_vars, elapsed, result, ret, calls>>

\* The dict of trigger_build after its resolver returned, with or without a
\* build number.
TbDict(queue_url, b) ==
    [success |-> TRUE, message |-> "triggered", queue_url |-> queue_url,
     build_number |-> b, build_url |-> b]

\* The return statement after the resolver.
TbReturn ==
    /\ pc = "tb_ret"
    /\ Return(TbDict(queue_item_number, actual_build_number))
    /\ UNCHANGED <<conc_vars, text_vars, exists_answer, fallback_vars,
                   resolution, op, queue_item_number, resolver_vars,
                   expected_build_number, last_build_number,
                   actual_build_number, server_vars, monitor_vars, elapsed,
                   result, calls>>

\* ------------------------------------------------------- the specification
Next ==
    \/ \E answer \in {"exists", "absent", "raise"} : JobExists(answer)
    \/ \E exists \in BOOLEAN : FileCheck(exists)
    \/ \E answer \in PostAnswers, location \in Locations, number \in 0..1 :
          Post(answer, location, number)
    \/ \E raised \in BOOLEAN, number \in 0..1 : LibBuildJob(raised, number)
    \/ \E lastBuild \in 0..(MaxBuild - 1), raised \in BOOLEAN :
          FbGetCurrent(lastBuild, raised)
    \/ QueueApiResolverReturn
    \/ \E raised \in BOOLEAN : QueueApiBuildInfo(raised)
    \/ \E lastBuild \in 0..(MaxBuild - 1), raised \in BOOLEAN : GetCurrent(lastBuild, raised)
    \/ \E raised \in BOOLEAN, number \in 0..1 : BuildJob(raised, number)
    \/ \E resp \in QueueResponses : QueuePoll(resp)
    \/ QueueExhausted
    \/ \E r \in PredictAnswers(expected_build_number) : PredictPoll(r)
    \/ PredictExhausted
    \/ \E raised \in BOOLEAN, lastBuild \in 0..(MaxBuild - 1) : WfsBaseline(raised, lastBuild)
    \/ \E r \in WfsAnswers(last_build_number) : WfsPoll(r)
    \/ WfsExhausted
    \/ ResolverReturn
    \/ \E raised \in BOOLEAN, monitor \in BOOLEAN : TriggerBuildInfo(raised, monitor)
    \/ \E r \in Results : BuildFinish(r)
    \/ \E r \in Results : ServerRewrite(r)
    \/ \E st_raised \in BOOLEAN, con_raised \in BOOLEAN : MonitorPoll(st_raised, con_raised)
    \/ MonitorEnd
    \/ \E raised \in BOOLEAN : MonitorReturn(raised)
    \/ WaitCompleteReturn
    \/ \E raised \in BOOLEAN, latency \in Latencies : StatusPoll(raised, latency)
    \/ StatusTimeout
    \/ \E answer \in {"yes", "no", "raise"} : GsoQueue(answer)
    \/ \E lastBuild \in 0..MaxBuild, raised \in BOOLEAN : GsoCurrent(lastBuild, raised)
    \/ \E raised \in BOOLEAN, r \in Results : GsoBuildInfo(raised, r)
    \/ \E answer \in PostAnswers, location \in Locations : TbPost(answer, location)
    \/ \E resp \in TbResponses : TbPoll(resp)
    \/ TbExhausted
    \/ TbReturn

Spec == Init /\ [][Next]_vars

\* The same runs where monitor_build, once called, is not suspended for ever:
\* its loop goes on to the next iteration and the statements after the loop
\* are executed.  Nothing is assumed about the server.
SpecFair ==
    /\ Init /\ [][Next]_vars
    /\ WF_vars(\E st_raised \in BOOLEAN, con_raised \in BOOLEAN :
                  MonitorPoll(st_raised, con_raised))
    /\ WF_vars(MonitorEnd)

\* ---------------------------------------------------------- concurrent runs
\* Two invocations trigger the same job with the queue-item strategy
\* (build_job, then wait_for_build_start_by_queue on the number it returned)
\* against one server, which starts the queued builds in any order, starts
\* builds of other users and removes the queue items of started builds.

\* Builds the server starts for other users during a run.
MaxForeign == 1

\* No single invocation takes place.
SeqIdle ==
    /\ op = "none" /\ pc = "idle"
    /\ queue_item_number = None
    /\ i = 0 /\ polls = 0 /\ slept = 0 /\ printed = 0 /\ qlog = <<>>
    /\ expected_build_number = None
    /\ last_build_number = None
    /\ actual_build_number = None
    /\ resolution = "none"
    /\ build = Running
    /\ frozen = TRUE
    /\ build_complete = FALSE /\ build_result = "NULL"
    /\ st_log = <<>> /\ console_fetches = 0 /\ flushes = 0
    /\ mon_slept = 0 /\ mon_success = FALSE
    /\ elapsed = 0
    /\ result = NoDict
    /\ ret = NoDict
    /\ calls = <<>>
    /\ exists_answer = "none"
    /\ stage = "primary" /\ retry = 0 /\ fb_slept = 0

InitConc ==
    /\ SeqIdle
    /\ TextIdle
    /\ server = ServerInit(10)
    /\ clients \in [Invocations -> {ClientInit(cls) : cls \in Classes}]

\* Variant of the request that asks for the newest queue item of the server
\* instead of the item build_job returned.
queue_api_url_newest(number) == Len(server.items)

\* The queue item a poll asks for: /queue/item/{queue_item_number}/api/json.
queue_api_url(number) == number

\* What the server answers for queue item q.
QueueAnswer(srv, q) ==
    IF q \notin 1..Len(srv.items) \/ srv.items[q].state = "gone"
    THEN [status_code |-> 404, executable |-> "absent", number |-> None]
    ELSE IF srv.items[q].state = "waiting"
    THEN [status_code |-> 200, executable |-> "absent", number |-> None]
    ELSE [status_code |-> 200, executable |-> "object",
          number |-> srv.items[q].build]

\* What reaches the client: the server's answer, or a failure on the way.
Transports == {"ok", "http_500", "raise"}

Received(transport, answer) ==
    IF transport = "ok" THEN answer
    ELSE [status_code |-> IF transport = "http_500" THEN 500 ELSE 0,
          executable |-> "absent", number |-> None]

\* build_job of invocation c: the server queues a new item and returns its
\* number.
CBuildJob(c) ==
    /\ clients[c].pc = "build_job"
    /\ server' = [server EXCEPT
                    !.items = Append(@, [state |-> "waiting", build |-> None])]
    /\ clients' = [clients EXCEPT
                    ![c].queue_item_number = Len(server.items) + 1,
                    ![c].pc = "queue_loop"]
    /\ UNCHANGED seq_vars

\* One iteration of wait_for_build_start_by_queue of invocation c.
CQueuePoll(c, transport) ==
    /\ clients[c].pc = "queue_loop"
    /\ clients[c].i < MaxWait
    /\ LET me == clients[c]
           resp == Received(transport,
                            QueueAnswer(server, queue_api_url(me.queue_item_number)))
           step == QueueIteration(me.cls, me.i, get_queue_item_info(me.cls, resp))
       IN clients' = [clients EXCEPT
             ![c].polls = @ + 1,
             ![c].i = IF step.returns THEN @ ELSE @ + 1,
             ![c].actual_build_number = IF step.returns THEN step.value ELSE @,
             ![c].pc = IF step.returns THEN "done" ELSE @]
    /\ UNCHANGED <<server, seq_vars>>

CQueueExhausted(c) ==
    /\ clients[c].pc = "queue_loop"
    /\ clients[c].i = MaxWait
    /\ clients' = [clients EXCEPT ![c].actual_build_number = None,
                                  ![c].pc = "done"]
    /\ UNCHANGED <<server, seq_vars>>

\* The server starts the build of a waiting queue item: the job's next build
\* number is attached to the item.
SStartBuild(q) ==
    /\ q \in 1..Len(server.items)
    /\ server.items[q].state = "waiting"
    /\ server' = [server EXCEPT
                    !.items[q] = [state |-> "started", build |-> server.lastBuild + 1],
                    !.lastBuild = @ + 1,
                    !.running = @ \cup {server.lastBuild + 1}]
    /\ UNCHANGED <<clients, seq_vars>>

\* The server starts a build that another user triggered.
SForeignBuild ==
    /\ server.foreign < MaxForeign
    /\ server' = [server EXCEPT
                    !.lastBuild = @ + 1,
                    !.running = @ \cup {server.lastBuild + 1},
                    !.foreign = @ + 1]
    /\ UNCHANGED <<clients, seq_vars>>

\* A running build ends.
SFinishBuild(b) ==
    /\ b \in server.running
    /\ server' = [server EXCEPT !.running = @ \ {b}]
    /\ UNCHANGED <<clients, seq_vars>>

\* The server removes the queue item of a started build.
SExpireItem(q) ==
    /\ q \in 1..Len(server.items)
    /\ server.items[q].state = "started"
    /\ server' = [server EXCEPT !.items[q].state = "gone"]
    /\ UNCHANGED <<clients, seq_vars>>

NextConc ==
    \/ \E c \in Invocations : CBuildJob(c)
    \/ \E c \in Invocations, transport \in Transports : CQueuePoll(c, transport)
    \/ \E c \in Invocations : CQueueExhausted(c)
    \/ \E q \in DOMAIN server.items : SStartBuild(q)
    \/ SForeignBuild
    \/ \E b \in server.running : SFinishBuild(b)
    \/ \E q \in DOMAIN server.items : SExpireItem(q)

SpecConc == InitConc /\ [][NextConc]_vars

\* ------------------------------------- concurrent runs, predictive strategy
\* Two invocations of _trigger_build_and_wait_result_legacy on one job, from
\* the read of the last build number to the return of
\* wait_for_build_start_improved.  Every request of an iteration is a step of
\* its own, so the other invocation and the server can act between two
\* requests of one iteration.  The two invocations are the only source
\* of builds, and the queue items of started builds are kept: the strategy
\* never asks for a queue item.
PredictClientInit ==
    [pc |-> "get_current", cls |-> "upload", queue_item_number |-> None,
     i |-> 0, polls |-> 0, actual_build_number |-> None,
     expected_build_number |-> None,
     in_queue |-> "none", current_build_number |-> None]

\* The job's last build is 10, which may still be running.
InitPredict ==
    /\ SeqIdle
    /\ TextIdle
    /\ server \in {ServerInit(10), [ServerInit(10) EXCEPT !.running = {10}]}
    /\ clients = [c \in Invocations |-> PredictClientInit]

\* The server's answer to get_queue_info at the moment of the request: the
\* job is listed while one of its items waits.
ServerInQueue(srv, raised) ==
    IF raised THEN "raise"
    ELSE IF \E q \in DOMAIN srv.items : srv.items[q].state = "waiting"
    THEN "yes" ELSE "no"

\* The server's answer to get_build_info of build b at the moment of the
\* request.
ServerBuilding(srv, b, raised) ==
    IF raised THEN "raise"
    ELSE IF b \in srv.running THEN "true" ELSE "false"

\* The end of one iteration of invocation c that made the requests answered
\* by r: the return of the build number, or the sleep and the next iteration.
PredictStep(c, r) ==
    LET step == PredictIteration(clients[c].expected_build_number, r)
    IN [clients EXCEPT
          ![c].polls = @ + 1,
          ![c].i = IF step.returns THEN @ ELSE @ + 1,
          ![c].actual_build_number = IF step.returns THEN step.value ELSE @,
          ![c].in_queue = "none",
          ![c].current_build_number = None,
          ![c].pc = IF step.returns THEN "done" ELSE "predict_loop"]

\* get_current_build_number before the submission, and the expected number.
PGetCurrent(c, raised) ==
    /\ clients[c].pc = "get_current"
    /\ clients' = [clients EXCEPT
                    ![c].expected_build_number =
                        get_current_build_number(server.lastBuild, raised) + 1,
                    ![c].pc = "build_job"]
    /\ UNCHANGED <<server, seq_vars>>

\* build_job of invocation c: the server queues a new item.
PBuildJob(c) ==
    /\ clients[c].pc = "build_job"
    /\ server' = [server EXCEPT
                    !.items = Append(@, [state |-> "waiting", build |-> None])]
    /\ clients' = [clients EXCEPT
                    ![c].queue_item_number = Len(server.items) + 1,
                    ![c].pc = "predict_loop"]
    /\ UNCHANGED seq_vars

\* First request of an iteration of wait_for_build_start_improved of
\* invocation c: is_job_in_queue.  A listed job ends the iteration.
PPredictQueue(c, raised) ==
    /\ clients[c].pc = "predict_loop"
    /\ clients[c].i < MaxWait
    /\ LET answer == ServerInQueue(server, raised)
       IN clients' =
             IF is_job_in_queue(answer)
             THEN PredictStep(c, [in_queue |-> answer, lastBuild |-> 0,
                                  building |-> "none"])
             ELSE [clients EXCEPT ![c].in_queue = answer,
                                  ![c].pc = "predict_job"]
    /\ UNCHANGED <<server, seq_vars>>

\* Second request of the iteration: get_current_build_number, answered by the
\* server as it is now.  get_build_info follows exactly when the number is
\* one the iteration would return were that build reported as running.
PPredictJob(c, raised) ==
    /\ clients[c].pc = "predict_job"
    /\ LET me == clients[c]
           current_build_number ==
               get_current_build_number(server.lastBuild, raised)
           asks == PredictIteration(me.expected_build_number,
                       [in_queue |-> me.in_queue,
                        lastBuild |-> current_build_number,
                        building |-> "true"]).returns
       IN clients' =
             IF asks
             THEN [clients EXCEPT
                     ![c].current_build_number = current_build_number,
                     ![c].pc = "predict_info"]
             ELSE PredictStep(c, [in_queue |-> me.in_queue,
                                  lastBuild |-> current_build_number,
                                  building |-> "none"])
    /\ UNCHANGED <<server, seq_vars>>

\* Third request of the iteration: get_build_info of the number read by the
\* second, answered by the server as it is now.
PPredictInfo(c, raised) ==
    /\ clients[c].pc = "predict_info"
    /\ LET me == clients[c]
       IN clients' = PredictStep(c,
             [in_queue |-> me.in_queue,
              lastBuild |-> me.current_build_number,
              building |-> ServerBuilding(server, me.current_build_number,
                                          raised)])
    /\ UNCHANGED <<server, seq_vars>>

PPredictExhausted(c) ==
    /\ clients[c].pc = "predict_loop"
    /\ clients[c].i = MaxWait
    /\ clients' = [clients EXCEPT ![c].actual_build_number = None,
                                  ![c].pc = "done"]
    /\ UNCHANGED <<server, seq_vars>>

NextPredict ==
    \/ \E c \in Invocations, raised \in BOOLEAN : PGetCurrent(c, raised)
    \/ \E c \in Invocations : PBuildJob(c)
    \/ \E c \in Invocations, raised \in BOOLEAN : PPredictQueue(c, raised)
    \/ \E c \in Invocations, raised \in BOOLEAN : PPredictJob(c, raised)
    \/ \E c \in Invocations, raised \in BOOLEAN : PPredictInfo(c, raised)
    \/ \E c \in Invocations : PPredictExhausted(c)
    \/ \E q \in DOMAIN server.items : SStartBuild(q)
    \/ \E b \in server.running : SFinishBuild(b)

SpecPredict == InitPredict /\ [][NextPredict]_vars

\* ------------------------------------------ monitor_build: the console log
\* monitor_build of either class on its own, with the console text it
\* fetches; the two classes differ in what _process_console_output prints.
\* A console
\* text is a sequence of symbols: the line break, and one symbol for each
\* keyword of _process_console_output that occurs in the modelled texts
\* ("digest:" of the image keywords, "error:" of the important build steps).
\* A symbol stands for the characters it spells; the cursor of monitor_build
\* counts characters, so a slice can begin inside a keyword and then starts
\* with the rest of that keyword, a symbol of its own.
\* The server keeps the console text of the monitored build: the build
\* appends symbols to it, and a server that does not keep the log may drop
\* it.  A console request is answered with that text or fails; a status
\* request is answered as get_build_status reports it.

\* Symbols a build writes to its console.
MaxText == 4

\* Iterations of the loop that find the build running.
MaxFetches == 2

ConsoleChars == {"digest:", "error:", "\n"}

\* What get_build_console_output answers.
ConsoleResponse(raised, log) ==
    IF raised THEN [raised |-> TRUE, text |-> <<>>]
    ELSE [raised |-> FALSE, text |-> log]

\* What get_build_status can answer.
StatusResponses ==
    {get_build_status(TRUE, Running), get_build_status(FALSE, Running)}
    \cup {get_build_status(FALSE, [building |-> FALSE, result |-> r]) :
            r \in Results}

\* c[k:] for every k below len(c), for a symbol c the build writes: the
\* symbol itself, then what is left of it after each of its characters.
CharsFrom(c) ==
    CASE c = "digest:" ->
             <<"digest:", "igest:", "gest:", "est:", "st:", "t:", ":">>
      [] c = "error:" -> <<"error:", "rror:", "ror:", "or:", "r:", ":">>
      [] c = "\n" -> <<"\n">>

\* len(console_output), in characters.
RECURSIVE StrLen(_)
StrLen(text) ==
    IF text = <<>> THEN 0
    ELSE Len(CharsFrom(Head(text))) + StrLen(Tail(text))

\* console_output[last_log_position:], the position counted in characters.
RECURSIVE Suffix(_, _)
Suffix(text, position) ==
    IF text = <<>> \/ position = 0 THEN text
    ELSE LET rests == CharsFrom(Head(text))
         IN IF position >= Len(rests)
            THEN Suffix(Tail(text), position - Len(rests))
            ELSE <<rests[position + 1]>> \o Tail(text)

IsPrefix(a, b) == Len(a) <= Len(b) /\ SubSeq(b, 1, Len(a)) = a

\* output.split("\n")
RECURSIVE SplitLines(_)
SplitLines(output) ==
    IF \A k \in 1..Len(output) : output[k] # "\n"
    THEN <<output>>
    ELSE LET k == CHOOSE j \in 1..Len(output) :
                      /\ output[j] = "\n"
                      /\ \A h \in 1..(j - 1) : output[h] # "\n"
         IN <<SubSeq(output, 1, k - 1)>>
                \o SplitLines(SubSeq(output, k + 1, Len(output)))

\* keyword in cleaned_line
Contains(line, keyword) == \E k \in 1..Len(line) : line[k] = keyword

\* `not line.strip()`: the line has only blanks.
IsBlank(line) == \A k \in 1..Len(line) : line[k] = " "

\* text.strip()
RECURSIVE Strip(_)
Strip(text) ==
    IF text = <<>> THEN text
    ELSE IF Head(text) = " " THEN Strip(Tail(text))
    ELSE IF text[Len(text)] = " " THEN Strip(SubSeq(text, 1, Len(text) - 1))
    ELSE text

\* text.split(sep)[-1]
AfterLast(text, sep) ==
    IF ~Contains(text, sep) THEN text
    ELSE LET k == CHOOSE j \in 1..Len(text) :
                      /\ text[j] = sep
                      /\ \A h \in (j + 1)..Len(text) : text[h] # sep
         IN SubSeq(text, k + 1, Len(text))

\* text.split(sep)[0]
BeforeFirst(text, sep) ==
    IF ~Contains(text, sep) THEN text
    ELSE LET k == CHOOSE j \in 1..Len(text) :
                      /\ text[j] = sep
                      /\ \A h \in 1..(j - 1) : text[h] # sep
         IN SubSeq(text, 1, k - 1)

\* cleaned_line = self._clean_ansi_sequences(line), for a line whose escape
\* sequences are color codes, each of them one symbol "ESC[0m" that the
\* pattern matches as a whole.
cleaned_line(line) == SelectSeq(line, LAMBDA c : c # "ESC[0m")

\* The keyword lists of the branches, as far as they occur in the modelled
\* texts.
Markers == {"[STAGE_START]", "[STAGE_END]", "[BUILD_SUCCESS]", "[BUILD_INFO]"}
ImageKeywords == {"registry.", "digest:"}
ImportantSteps == {"error:"}
VerboseAllowlist == {"latest:", "digest:"}

\* Variant of the body of the loop that looks for the image keywords before
\* the structured markers.
ProcessLine_image_first(acc, line, verbose) ==
    IF IsBlank(line) THEN acc
    ELSE LET cl == cleaned_line(line)
             Emit(category, content) ==
                 [acc EXCEPT !.emitted = Append(@, <<category, content>>)]
         IN IF \E keyword \in ImageKeywords : Contains(cl, keyword)
            THEN IF Contains(cl, "digest:")
                 THEN LET info_key == <<"digest", Strip(cl)>>
                      IN IF info_key \in acc.displayed_info THEN acc
                         ELSE [emitted |-> Append(acc.emitted, info_key),
                               displayed_info |-> acc.displayed_info \cup {info_key}]
                 ELSE Emit("image", Strip(cl))
            ELSE IF \E marker \in Markers : Contains(cl, marker)
            THEN IF Contains(cl, "[STAGE_START]")
                 THEN Emit("stage_start", Strip(AfterLast(cl, "[STAGE_START]")))
                 ELSE IF Contains(cl, "[STAGE_END]")
                 THEN Emit("stage_end", Strip(AfterLast(cl, "[STAGE_END]")))
                 ELSE IF Contains(cl, "[BUILD_SUCCESS]")
                 THEN Emit("build_success", Strip(AfterLast(cl, "[BUILD_SUCCESS]")))
                 ELSE Emit("build_info", Strip(AfterLast(cl, "[BUILD_INFO]")))
            ELSE IF Contains(cl, "[Pipeline] stage") /\ Contains(cl, "}")
            THEN IF Contains(cl, "(") /\ Contains(cl, ")")
                 THEN Emit("pipeline_stage", BeforeFirst(AfterLast(cl, "("), ")"))
                 ELSE acc
            ELSE IF \E pattern \in ImportantSteps : Contains(cl, pattern)
            THEN Emit("step", Strip(cl))
            ELSE IF verbose /\ \E pattern \in VerboseAllowlist : Contains(cl, pattern)
            THEN Emit("verbose", Strip(cl))
            ELSE acc

\* The body of the loop over the lines.  A blank line is skipped; the first
\* branch whose keywords occur in the cleaned line decides: a structured
\* marker (the first of the four that occurs), a pipeline stage line (printed
\* only with a name in parentheses), an image keyword (a digest line is
\* printed unless its info_key is in displayed_info, which then receives
\* it), an important build step, and in verbose mode the allowlist.  acc
\* holds the lines printed so far (category and content) and displayed_info.
ProcessLine(acc, line, verbose) ==
    IF IsBlank(line) THEN acc
    ELSE LET cl == cleaned_line(line)
             Emit(category, content) ==
                 [acc EXCEPT !.emitted = Append(@, <<category, content>>)]
         IN IF \E marker \in Markers : Contains(cl, marker)
            THEN IF Contains(cl, "[STAGE_START]")
                 THEN Emit("stage_start", Strip(AfterLast(cl, "[STAGE_START]")))
                 ELSE IF Contains(cl, "[STAGE_END]")
                 THEN Emit("stage_end", Strip(AfterLast(cl, "[STAGE_END]")))
                 ELSE IF Contains(cl, "[BUILD_SUCCESS]")
                 THEN Emit("build_success", Strip(AfterLast(cl, "[BUILD_SUCCESS]")))
                 ELSE Emit("build_info", Strip(AfterLast(cl, "[BUILD_INFO]")))
            ELSE IF Contains(cl, "[Pipeline] stage") /\ Contains(cl, "}")
            THEN IF Contains(cl, "(") /\ Contains(cl, ")")
                 THEN Emit("pipeline_stage", BeforeFirst(AfterLast(cl, "("), ")"))
                 ELSE acc
            ELSE IF \E keyword \in ImageKeywords : Contains(cl, keyword)
            THEN IF Contains(cl, "digest:")
                 THEN LET info_key == <<"digest", Strip(cl)>>
                      IN IF info_key \in acc.displayed_info THEN acc
                         ELSE [emitted |-> Append(acc.emitted, info_key),
                               displayed_info |-> acc.displayed_info \cup {info_key}]
                 ELSE Emit("image", Strip(cl))
            ELSE IF \E pattern \in ImportantSteps : Contains(cl, pattern)
            THEN Emit("step", Strip(cl))
            ELSE IF verbose /\ \E pattern \in VerboseAllowlist : Contains(cl, pattern)
            THEN Emit("verbose", Strip(cl))
            ELSE acc

RECURSIVE ProcessLines(_, _, _)
ProcessLines(acc, lines, verbose) ==
    IF lines = <<>> THEN acc
    ELSE ProcessLines(ProcessLine(acc, Head(lines), verbose), Tail(lines), verbose)

\* _process_console_output(output, verbose, displayed_info): what it prints,
\* and displayed_info afterwards.
_process_console_output(output, verbose, displayed_info) ==
    IF \A k \in 1..Len(output) : output[k] \in {"\n", " "}
    THEN [emitted |-> <<>>, displayed_info |-> displayed_info]
    ELSE ProcessLines([emitted |-> <<>>, displayed_info |-> displayed_info],
                      SplitLines(output), verbose)

\* The keyword lists of JenkinsGitHubBuilder._process_console_output, as far
\* as they occur in the modelled texts: the build steps are looked for in the
\* lower-cased line, the verbose list in the line as it is.
GitHubSteps == {"error:"}
GitHubVerboseAllowlist == {"Git"}

\* The body of the loop over the lines in JenkinsGitHubBuilder: a blank line
\* is skipped, a line with a build step keyword is printed, and in verbose
\* mode a line with a keyword of the allowlist; there are no marker, stage or
\* image branches and nothing is remembered between lines.
GitHubProcessLine(emitted, line, verbose) ==
    IF IsBlank(line) THEN emitted
    ELSE LET cl == cleaned_line(line)
         IN IF \E pattern \in GitHubSteps : Contains(cl, pattern)
            THEN Append(emitted, <<"step", Strip(cl)>>)
            ELSE IF verbose /\ \E pattern \in GitHubVerboseAllowlist :
                                  Contains(cl, pattern)
            THEN Append(emitted, <<"verbose", Strip(cl)>>)
            ELSE emitted

RECURSIVE GitHubProcessLines(_, _, _)
GitHubProcessLines(emitted, lines, verbose) ==
    IF lines = <<>> THEN emitted
    ELSE GitHubProcessLines(GitHubProcessLine(emitted, Head(lines), verbose),
                            Tail(lines), verbose)

\* JenkinsGitHubBuilder._process_console_output(output, verbose): what it
\* prints.
GitHubProcessConsoleOutput(output, verbose) ==
    IF \A k \in 1..Len(output) : output[k] \in {"\n", " "}
    THEN <<>>
    ELSE GitHubProcessLines(<<>>, SplitLines(output), verbose)

\* The call of _process_console_output in monitor_build of either class
\* (verbose as monitor_build is called by the operations): what is printed,
\* and displayed_info afterwards, which only JenkinsUploadBuilder has.
TailProcess(cls, output, displayed_info) ==
    IF cls = "upload"
    THEN _process_console_output(output, TRUE, displayed_info)
    ELSE [emitted |-> GitHubProcessConsoleOutput(output, TRUE),
          displayed_info |-> displayed_info]

\* The locals of monitor_build(job_name, build_number) before its loop, with
\* what the invocation has fetched, handed to processing and printed, and
\* the console text of the build on the server.
TailLocals(cls, build_number) ==
    [pc |-> "loop", cls |-> cls, build_number |-> build_number,
     log |-> <<>>, written |-> 0,
     last_log_position |-> 0, build_complete |-> FALSE,
     build_result |-> "NULL", displayed_info |-> {},
     console_output |-> <<>>, new_output |-> <<>>,
     fetch |-> "none", append_only |-> TRUE, delivered |-> <<>>,
     emitted |-> <<>>, st_seq |-> <<>>, success |-> FALSE]

\* Variant of the inner try that hands the whole fetched text to processing.
TailLog_whole_text(t, console) ==
    IF console.raised
    THEN [t EXCEPT !.fetch = "raised", !.new_output = <<>>]
    ELSE LET new_output == Suffix(console.text, t.last_log_position)
             append_only == t.append_only /\ IsPrefix(t.console_output, console.text)
             processed == TailProcess(t.cls, console.text, t.displayed_info)
         IN IF new_output # <<>>
            THEN [t EXCEPT !.fetch = "new",
                           !.console_output = console.text,
                           !.new_output = console.text,
                           !.append_only = append_only,
                           !.delivered =
                               IF append_only THEN @ \o console.text ELSE <<>>,
                           !.emitted = @ \o processed.emitted,
                           !.displayed_info = processed.displayed_info,
                           !.last_log_position = StrLen(console.text)]
            ELSE [t EXCEPT !.fetch = "same",
                           !.console_output = console.text,
                           !.new_output = <<>>,
                           !.append_only = append_only,
                           !.delivered = IF append_only THEN @ ELSE <<>>]

\* Variant of the inner try that sets the cursor to the length of whatever
\* text was fetched.
TailLog_always_advance(t, console) ==
    IF console.raised
    THEN [t EXCEPT !.fetch = "raised", !.new_output = <<>>]
    ELSE LET new_output == Suffix(console.text, t.last_log_position)
             append_only == t.append_only /\ IsPrefix(t.console_output, console.text)
             processed == TailProcess(t.cls, new_output, t.displayed_info)
         IN [t EXCEPT !.fetch = IF new_output # <<>> THEN "new" ELSE "same",
                      !.console_output = console.text,
                      !.new_output = new_output,
                      !.append_only = append_only,
                      !.delivered = IF append_only THEN @ \o new_output ELSE <<>>,
                      !.emitted = @ \o processed.emitted,
                      !.displayed_info = processed.displayed_info,
                      !.last_log_position = StrLen(console.text)]

\* The inner try of one iteration: the console request, the suffix beyond
\* the cursor, its processing and the new cursor.  The chunks handed to
\* processing are accumulated while the log has been append-only.
TailLog(t, console) ==
    IF console.raised
    THEN [t EXCEPT !.fetch = "raised", !.new_output = <<>>]
    ELSE LET new_output == Suffix(console.text, t.last_log_position)
             append_only == t.append_only /\ IsPrefix(t.console_output, console.text)
             processed == TailProcess(t.cls, new_output, t.displayed_info)
         IN IF new_output # <<>>
            THEN [t EXCEPT !.fetch = "new",
                           !.console_output = console.text,
                           !.new_output = new_output,
                           !.append_only = append_only,
                           !.delivered =
                               IF append_only THEN @ \o new_output ELSE <<>>,
                           !.emitted = @ \o processed.emitted,
                           !.displayed_info = processed.displayed_info,
                           !.last_log_position = StrLen(console.text)]
            ELSE [t EXCEPT !.fetch = "same",
                           !.console_output = console.text,
                           !.new_output = <<>>,
                           !.append_only = append_only,
                           !.delivered = IF append_only THEN @ ELSE <<>>]

\* Variant of the iteration in which a failed console request ends the loop.
TailIteration_console_fatal(t, status, console) ==
    LET seen == [t EXCEPT !.st_seq = Append(@, Observation(status))]
    IN IF ~status.success
       THEN [seen EXCEPT !.pc = "end", !.fetch = "none", !.new_output = <<>>]
       ELSE LET marked ==
                    IF status.building THEN seen
                    ELSE [seen EXCEPT !.build_complete = TRUE,
                                      !.build_result = status.result]
            IN [TailLog(marked, console) EXCEPT
                    !.pc = IF status.building /\ ~console.raised
                           THEN "loop" ELSE "end"]

\* One iteration of `while not build_complete`: a failed status request
\* breaks out of the loop before the console request.
TailIteration(t, status, console) ==
    LET seen == [t EXCEPT !.st_seq = Append(@, Observation(status))]
    IN IF ~status.success
       THEN [seen EXCEPT !.pc = "end", !.fetch = "none", !.new_output = <<>>]
       ELSE LET marked ==
                    IF status.building THEN seen
                    ELSE [seen EXCEPT !.build_complete = TRUE,
                                      !.build_result = status.result]
            IN [TailLog(marked, console) EXCEPT
                    !.pc = IF status.building THEN "loop" ELSE "end"]

TailFrame == UNCHANGED <<conc_vars, flow_vars, ansi, annot>>

TailPoll(status, con_raised) ==
    /\ tail.pc = "loop"
    /\ Len(tail.st_seq) < MaxFetches \/ ~status.building
    /\ tail' = TailIteration(tail, status, ConsoleResponse(con_raised, tail.log))
    /\ TailFrame

\* The build writes one symbol to its console.
ConsoleAppend(c) ==
    /\ tail.pc = "loop"
    /\ tail.written < MaxText
    /\ tail' = [tail EXCEPT !.log = Append(@, c), !.written = @ + 1]
    /\ TailFrame

\* The server drops the console text it held.
ConsoleDrop ==
    /\ tail.pc = "loop"
    /\ tail.log # <<>>
    /\ tail' = [tail EXCEPT !.log = <<>>]
    /\ TailFrame

\* return build_result == "SUCCESS"
TailEnd ==
    /\ tail.pc = "end"
    /\ tail' = [tail EXCEPT !.pc = "returned",
                            !.success = MonitorResult(tail.build_result)]
    /\ TailFrame

\* The caller monitors the next build with a new invocation.
TailCall ==
    /\ tail.pc = "returned"
    /\ tail.build_number < MaxBuild
    /\ tail' = TailLocals(tail.cls, tail.build_number + 1)
    /\ TailFrame

InitTail ==
    /\ SeqIdle
    /\ ConcIdle
    /\ ansi = [pc |-> "idle"]
    /\ annot = [pc |-> "idle"]
    /\ \E cls \in Classes : tail = TailLocals(cls, 1)

NextTail ==
    \/ \E status \in StatusResponses, con_raised \in BOOLEAN :
          TailPoll(status, con_raised)
    \/ \E c \in ConsoleChars : ConsoleAppend(c)
    \/ ConsoleDrop
    \/ TailEnd
    \/ TailCall

SpecTail == InitTail /\ [][NextTail]_vars

\* ------------------------------------------------------ _clean_ansi_sequences
\* The function on its own: a text is a sequence of characters, each standing
\* for its code point, and the pattern
\*     \x1B(?:[@-Z\\-_]|\[[0-?]*[ -/]*[@-~])
\* is matched as re matches it.

\* Longest text that is cleaned.
MaxAnsiLen == 5

\* The characters of the texts and their code points.
AnsiCode ==
    [c \in {"ESC", "[", "1", " ", "m", "O", "K"} |->
        CASE c = "ESC" -> 27 [] c = "[" -> 91 [] c = "1" -> 49
          [] c = " " -> 32 [] c = "m" -> 109 [] c = "O" -> 79
          [] c = "K" -> 75]

AnsiChars == DOMAIN AnsiCode

AnsiTexts == UNION {[1..n -> AnsiChars] : n \in 0..MaxAnsiLen}

\* The first position from p on whose character is outside the code range
\* lo..hi (Len(text) + 1 if there is none): the end of a greedy `[lo-hi]*`.
RECURSIVE ClassRunEnd(_, _, _, _)
ClassRunEnd(text, p, lo, hi) ==
    IF p <= Len(text) /\ AnsiCode[text[p]] \in lo..hi
    THEN ClassRunEnd(text, p + 1, lo, hi)
    ELSE p

\* The position of the last character of the match of the pattern that
\* starts at p, or 0 when the pattern does not match there.  The three
\* classes of the second alternative are disjoint, so the greedy match is the
\* only candidate.
ansi_escape(text, p) ==
    IF p + 1 > Len(text) \/ text[p] # "ESC" THEN 0
    ELSE IF AnsiCode[text[p + 1]] \in (64..90) \cup (92..95) THEN p + 1
    ELSE IF text[p + 1] # "[" THEN 0
    ELSE LET q == ClassRunEnd(text, ClassRunEnd(text, p + 2, 48, 63), 32, 47)
         IN IF q <= Len(text) /\ AnsiCode[text[q]] \in 64..126 THEN q ELSE 0

\* Variant of the substitution that removes the leftmost match only.
RECURSIVE AnsiSub_first_only(_, _)
AnsiSub_first_only(text, p) ==
    IF p > Len(text) THEN <<>>
    ELSE IF ansi_escape(text, p) # 0
    THEN SubSeq(text, ansi_escape(text, p) + 1, Len(text))
    ELSE <<text[p]>> \o AnsiSub_first_only(text, p + 1)

\* ansi_escape.sub("", text) from position p on: the matches are found from
\* left to right, each search starting after the previous match.
RECURSIVE AnsiSub(_, _)
AnsiSub(text, p) ==
    IF p > Len(text) THEN <<>>
    ELSE IF ansi_escape(text, p) # 0
    THEN AnsiSub(text, ansi_escape(text, p) + 1)
    ELSE <<text[p]>> \o AnsiSub(text, p + 1)

_clean_ansi_sequences(text) == AnsiSub(text, 1)

AnsiFrame == UNCHANGED <<conc_vars, flow_vars, tail, annot>>

\* The function is applied to the text.
CleanOnce ==
    /\ ansi.pc = "text"
    /\ ansi' = [ansi EXCEPT !.pc = "once",
                            !.once = _clean_ansi_sequences(ansi.text)]
    /\ AnsiFrame

\* The function is applied to its own result.
CleanTwice ==
    /\ ansi.pc = "once"
    /\ ansi' = [ansi EXCEPT !.pc = "twice",
                            !.twice = _clean_ansi_sequences(ansi.once)]
    /\ AnsiFrame

InitAnsi ==
    /\ SeqIdle
    /\ ConcIdle
    /\ tail = [pc |-> "idle"]
    /\ annot = [pc |-> "idle"]
    /\ ansi \in {[pc |-> "text", text |-> t, once |-> <<>>, twice |-> <<>>] :
                    t \in AnsiTexts}

NextAnsi == CleanOnce \/ CleanTwice

SpecAnsi == InitAnsi /\ [][NextAnsi]_vars

\* ------------------------------- _process_console_output: one line at a time
\* _process_console_output on its own, applied to one line in either mode,
\* with displayed_info empty or holding the info_key of the line.  A line is
\* a sequence of symbols: one for each keyword that matters to a branch, a
\* blank, a letter and a color code.

\* Symbols of a line.
MaxLineLen == 3

LineSymbols ==
    Markers \cup {"[Pipeline] stage", "}", "(", ")"} \cup ImageKeywords
        \cup ImportantSteps \cup VerboseAllowlist \cup {" ", "x", "ESC[0m"}

Lines == UNION {[1..n -> LineSymbols] : n \in 0..MaxLineLen}

\* The line is handed to _process_console_output.
AnnotateLine ==
    /\ annot.pc = "line"
    /\ annot' = [annot EXCEPT
                    !.pc = "done",
                    !.out = _process_console_output(annot.line, annot.verbose,
                                                    annot.displayed_info)]
    /\ UNCHANGED <<conc_vars, flow_vars, tail, ansi>>

\* displayed_info before the call: empty, or the digest info_key of the line.
Displayed(line, seen) ==
    IF seen THEN {<<"digest", Strip(cleaned_line(line))>>} ELSE {}

InitAnnot ==
    /\ SeqIdle
    /\ ConcIdle
    /\ tail = [pc |-> "idle"]
    /\ ansi = [pc |-> "idle"]
    /\ annot \in {[pc |-> "line", line |-> l, verbose |-> v,
                   displayed_info |-> Displayed(l, seen),
                   out |-> [emitted |-> <<>>,
                            displayed_info |-> Displayed(l, seen)]] :
                    l \in Lines, v \in BOOLEAN, seen \in BOOLEAN}

NextAnnot == AnnotateLine

SpecAnnot == InitAnnot /\ [][NextAnnot]_vars

\* ------------------------------------------------------------- properties

\* C1: of two invocations that trigger the same job with the queue-item
\* strategy, each one that resolves a build number resolves the build the
\* server attached to the queue item build_job returned to it, and the two
\* never resolve the same build number, whatever the interleaving of
\* submissions, polls, build starts and builds of other users.
C1_OwnQueueItemBuild ==
    \A c \in Invocations :
        (clients[c].pc = "done" /\ clients[c].actual_build_number # None) =>
            /\ clients[c].queue_item_number \in DOMAIN server.items
            /\ server.items[clients[c].queue_item_number].build
                 = clients[c].actual_build_number
            /\ \A d \in Invocations \ {c} :
                 (clients[d].pc = "done" /\ clients[d].actual_build_number # None)
                    => clients[d].actual_build_number # clients[c].actual_build_number

\* Both invocations resolved; the later submission was started first and a
\* build of another user was started during the run.
C1_Witness ==
    /\ \A c \in Invocations :
         clients[c].pc = "done" /\ clients[c].actual_build_number # None
    /\ clients[1].queue_item_number < clients[2].queue_item_number
    /\ clients[2].actual_build_number < clients[1].actual_build_number
    /\ server.foreign > 0

\* C2: when the queue resolver was answered k times "still queued" (200
\* without executable, or executable null) and then 200 with
\* executable.number = n, it has returned n with that poll, the (k+1)-th, and
\* issues no further poll.
C2_ReturnsAtFirstExecutable ==
    LET StillQueued(resp) ==
            resp.status_code = 200 /\ resp.executable \in {"absent", "null"}
        Started(resp) ==
            resp.status_code = 200 /\ resp.executable = "object" /\ resp.number # None
        QueueItemCalls == {j \in 1..Len(calls) : calls[j] = "queue_item"}
    IN (/\ pc \in {"queue_loop", "queue_ret"}
        /\ qlog # <<>>
        /\ \A j \in 1..(Len(qlog) - 1) : StillQueued(qlog[j])
        /\ Started(qlog[Len(qlog)]))
       => /\ pc = "queue_ret"
          /\ actual_build_number = qlog[Len(qlog)].number
          /\ polls = Len(qlog)
          /\ Cardinality(QueueItemCalls) = Len(qlog)
          /\ ~ENABLED (\E resp \in QueueResponses : QueuePoll(resp))

\* Two still-queued polls (one without executable, one with executable null),
\* then build 2: returned at the third poll.
C2_Witness ==
    /\ pc = "queue_ret"
    /\ Len(qlog) = 3
    /\ qlog[1].status_code = 200 /\ qlog[1].executable = "absent"
    /\ qlog[2].status_code = 200 /\ qlog[2].executable = "null"
    /\ qlog[3].status_code = 200 /\ qlog[3].number = 2
    /\ actual_build_number = 2
    /\ polls = 3

\* C3: a poll of the queue resolver that is answered 404 makes it return
\* None with that poll: no backoff sleep, no retry, no further poll; a 404
\* on the first poll ends the resolution after exactly one poll.
C3_NotFoundEndsResolution ==
    [][(/\ pc = "queue_loop"
        /\ qlog' # qlog
        /\ qlog'[Len(qlog')].status_code = 404)
       => /\ pc' = "queue_ret"
          /\ actual_build_number' = None
          /\ polls' = polls + 1
          /\ i' = i
          /\ slept' = slept]_vars

\* A 404 on the first poll: returned None after one poll and no sleep.
C3_Witness ==
    /\ pc = "queue_ret"
    /\ Len(qlog) = 1
    /\ qlog[1].status_code = 404
    /\ actual_build_number = None
    /\ polls = 1
    /\ slept = 0

\* C4: a poll of the queue resolver that fails with a non-404 HTTP status or
\* a transport error does not end the resolution: the resolver logs it,
\* waits 2 seconds and goes on to the next iteration.
C4_FailedPollLoggedAndRetried ==
    [][(/\ pc = "queue_loop"
        /\ qlog' # qlog
        /\ qlog'[Len(qlog')].status_code \in {500, 0})
       => /\ pc' = "queue_loop"
          /\ i' = i + 1
          /\ slept' = slept + 2
          /\ printed' = printed + 1]_vars

\* C5: the queue resolver issues at most max_wait polls, one per iteration
\* whether the poll was answered "still queued", failed or was answered
\* with a malformed body, can always go on
\* to its return, and returns None when the budget is used up without an
\* executable build number.
C5_AtMostMaxWaitPolls ==
    LET Started(resp) ==
            resp.status_code = 200 /\ resp.executable = "object" /\ resp.number # None
        QueueItemCalls == {j \in 1..Len(calls) : calls[j] = "queue_item"}
    IN pc \in {"queue_loop", "queue_ret"} =>
          /\ polls <= MaxWait
          /\ Cardinality(QueueItemCalls) = polls
          /\ pc = "queue_loop" =>
                /\ polls = i
                /\ \/ ENABLED (\E resp \in QueueResponses : QueuePoll(resp))
                   \/ ENABLED QueueExhausted
          /\ (pc = "queue_ret" /\ \A j \in 1..Len(qlog) : ~Started(qlog[j]))
                => actual_build_number = None
          /\ (pc = "queue_ret" /\ qlog # <<>> /\ actual_build_number = None
                /\ qlog[Len(qlog)].status_code # 404)
                => polls = MaxWait

\* The budget was used up by a still-queued poll, a failed poll and a poll
\* answered with a malformed body: None after max_wait polls.
C5_Witness ==
    /\ pc = "queue_ret"
    /\ polls = MaxWait
    /\ actual_build_number = None
    /\ \E j \in 1..Len(qlog) : qlog[j].status_code = 500
    /\ \E j \in 1..Len(qlog) :
          qlog[j].status_code = 200 /\ qlog[j].executable \in {"absent", "null"}
    /\ \E j \in 1..Len(qlog) : qlog[j].executable = "malformed"
    /\ qlog[Len(qlog)].status_code # 404

\* C6: when its resolver returned None, an operation that submits a build
\* (trigger_build_and_wait_result_improved, _trigger_build_and_wait_result_legacy,
\* upload_and_build, trigger_build) returns a dict with success = False and
\* has never called the completion waiter.
C6_UnresolvedReturnsFailure ==
    (/\ pc = "done"
     /\ resolution = "unresolved"
     /\ op \in ErrorKeyOps \cup {"upload_and_build", "trigger_build"})
    => /\ ret.success = FALSE
       /\ st_log = <<>>

\* C7: a failed status fetch never ends a completion wait: after it the
\* waiter is still in its polling loop, in monitor_build and in the
\* status-only wait_for_build_complete.
C7_FailedStatusFetchContinues ==
    [][(/\ pc \in {"monitor_loop", "status_loop"}
        /\ st_log' # st_log
        /\ st_log'[Len(st_log')] = "fail")
       => pc' = pc]_vars

\* C8: when monitor_build observed building = true k times and then
\* building = false with result r, it made exactly k + 1 status polls and
\* k + 1 console fetches, exactly one of them after the non-running
\* observation, slept only after the k running observations, and returns
\* True exactly when r = "SUCCESS", whatever the server reports later.
C8_MonitorEndsAtFirstNonRunning ==
    LET n == Len(st_log)
        ConsoleCalls == {j \in 1..Len(calls) : calls[j] = "get_build_console_output"}
    IN (/\ pc \in {"monitor_loop", "monitor_end", "monitor_ret"}
        /\ n > 0
        /\ \A j \in 1..(n - 1) : st_log[j] = "building"
        /\ st_log[n] \in Results)
       => /\ pc # "monitor_loop"
          /\ build_complete
          /\ build_result = st_log[n]
          /\ Cardinality(ConsoleCalls) = n
          /\ console_fetches = n
          /\ flushes = 1
          /\ mon_slept = 3 * (n - 1)
          /\ ~ENABLED (\E s \in BOOLEAN, c \in BOOLEAN : MonitorPoll(s, c))
          /\ pc = "monitor_ret" => mon_success = (st_log[n] = "SUCCESS")

\* Two running observations, then SUCCESS at the third poll; monitor_build
\* returned True although the server now reports another result.
C8_Witness ==
    /\ pc = "monitor_ret"
    /\ st_log = <<"building", "building", "SUCCESS">>
    /\ mon_success
    /\ mon_slept = 6
    /\ build.result = "FAILURE"

\* C9: when the build awaited by trigger_build_and_wait_result (queue-item
\* or legacy variant) ended with result r and the waiter reported it, the
\* returned dict has success = (r = "SUCCESS") and a status string: r itself
\* for SUCCESS, FAILURE, ABORTED and any other raw result, "UNKNOWN" for
\* none.
C9_StatusPerTerminalResult ==
    (/\ pc = "done"
     /\ op \in ErrorKeyOps
     /\ resolution = "resolved"
     /\ frozen
     /\ build_complete
     /\ "result" \in DOMAIN result)
    => /\ ret.success = (build_result = "SUCCESS")
       /\ "status" \in DOMAIN ret
       /\ ret.status = StatusString(build_result)

\* C10: when a submit-and-wait operation (trigger_build_and_wait_result in
\* both variants, trigger_and_wait with monitoring) resolved a build, waited
\* for it and returns, and the build has ended, the success flag of the
\* returned dict is True exactly when the build's result is "SUCCESS".
C10_SuccessIffTerminalSuccess ==
    (/\ pc = "done"
     /\ op \in ErrorKeyOps \cup {"trigger_and_wait"}
     /\ resolution = "resolved"
     /\ frozen
     /\ st_log # <<>>
     /\ ~build.building)
    => (ret.success <=> build.result = "SUCCESS")

\* C11: every dict trigger_build_and_wait_result (queue-item or legacy
\* variant) returns after its resolver returned a build number has the keys
\* url, duration and build_number, whatever the build's result was and also
\* when the wait failed.
C11_ResultHasUrlDurationNumber ==
    (/\ pc = "done"
     /\ op \in ErrorKeyOps
     /\ resolution = "resolved")
    => {"url", "duration", "build_number"} \subseteq DOMAIN ret

\* C12: once job_exists has answered that the job is absent, the operation
\* (upload_and_build, upload_and_build_with_queue_api, both variants of
\* trigger_build_and_wait_result, trigger_github_build) has returned the
\* not-found dict with success False, and job_exists is the only call it made.
C12_AbsentJobOnlyExistenceCheck ==
    (/\ op \in UploadOps \cup ErrorKeyOps \cup {"trigger_and_wait"}
     /\ exists_answer = "absent")
    => /\ pc = "done"
       /\ ret.success = FALSE
       /\ ret = JobNotFoundDict(op)
       /\ calls = <<"job_exists">>

\* upload_and_build_with_queue_api has returned for an absent job.
C12_Witness ==
    /\ op = "upload_and_build_with_queue_api"
    /\ exists_answer = "absent"
    /\ pc = "done"
    /\ "message" \in DOMAIN ret /\ ret.message = "job_not_found"

\* C13: an operation that uploads an artifact (upload_and_build,
\* upload_and_build_with_queue_api) and returns the missing-file failure has
\* made no call to the server.
C13_MissingArtifactNoServerCall ==
    (/\ pc = "done"
     /\ op \in UploadOps
     /\ "message" \in DOMAIN ret
     /\ ret.message = "file_missing")
    => /\ ret.success = FALSE
       /\ calls = <<>>

\* C14 as stated: upload_and_build_with_queue_api without a queue item number
\* from the Location header first submits again through the library and
\* resolves the queue item, then runs the predictive strategy; the predictive
\* strategy makes at most 3 attempts, each with a new read of the last build
\* number, sleeps 5 seconds between two attempts and not after the last; and
\* every failure returned on this path is the one after the last attempt.
C14_FailureOnlyAfterLastAttempt ==
    LET api == op = "upload_and_build_with_queue_api"
        Idx(name) == {j \in 1..Len(calls) : calls[j] = name}
        reads == Cardinality(Idx("get_job_info"))
        inAttempt == /\ stage = "fallback"
                     /\ pc \in {"predict_loop", "predict_ret", "api_build_info"}
    IN api =>
       /\ stage # "primary" =>
             /\ Idx("build_job") # {}
             /\ \A b \in Idx("build_job"), p \in Idx("post_build") : p < b
             /\ \A b \in Idx("build_job"), g \in Idx("get_job_info") : b < g
             /\ \A q \in Idx("queue_item"), g \in Idx("get_job_info") : q < g
       /\ stage # "fallback" => reads = 0 /\ retry = 0 /\ fb_slept = 0
       /\ retry <= FallbackRetries
       /\ inAttempt => reads >= retry + 1 /\ fb_slept = FallbackBackoff * retry
       /\ (pc = "done" /\ ret = AllFailedDict) =>
             /\ retry = FallbackRetries /\ reads >= FallbackRetries
             /\ fb_slept = FallbackBackoff * (FallbackRetries - 1)
       /\ (pc = "done" /\ Idx("build_job") # {} /\ ~ret.success) =>
             ret = AllFailedDict

\* C14, amended: as above, but a failure is also returned, without any
\* predictive attempt, when the queue-item resolution of the library's queue
\* item returned no build number; the predictive strategy follows only a
\* build_job that raised or returned no queue item number, or a
\* get_build_info that raised after the library's build was resolved.  Every
\* attempt starts with a read of the last build number, from which it
\* computes the expected one.
C14_FallbackOrderAndAttempts ==
    /\ [](LET api == op = "upload_and_build_with_queue_api"
              Idx(name) == {j \in 1..Len(calls) : calls[j] = name}
              reads == Cardinality(Idx("get_job_info"))
              inAttempt == /\ stage = "fallback"
                           /\ pc \in {"predict_loop", "predict_ret", "api_build_info"}
          IN api =>
             /\ stage # "primary" =>
                   /\ Idx("build_job") # {}
                   /\ \A b \in Idx("build_job"), p \in Idx("post_build") : p < b
                   /\ \A b \in Idx("build_job"), g \in Idx("get_job_info") : b < g
                   /\ \A q \in Idx("queue_item"), g \in Idx("get_job_info") : q < g
             /\ stage # "fallback" => reads = 0 /\ retry = 0 /\ fb_slept = 0
             /\ retry <= FallbackRetries
             /\ inAttempt => reads >= retry + 1 /\ fb_slept = FallbackBackoff * retry
             /\ (pc = "done" /\ ret = AllFailedDict) =>
                   /\ retry = FallbackRetries /\ reads >= FallbackRetries
                   /\ fb_slept = FallbackBackoff * (FallbackRetries - 1)
             /\ (pc = "done" /\ Idx("build_job") # {} /\ ~ret.success) =>
                   \/ ret = AllFailedDict
                   \/ /\ ret = QueueApiUnresolvedDict("library", queue_item_number)
                      /\ stage = "library" /\ reads = 0
                      /\ resolution = "unresolved"
             /\ \A g \in Idx("get_job_info") :
                   (\A h \in Idx("get_job_info") : g <= h) =>
                      calls[g - 1] \in {"build_job", "get_build_info"})
    /\ [][op = "upload_and_build_with_queue_api" =>
             /\ (pc' = "predict_loop" /\ pc # "predict_loop") =>
                   /\ calls' = Append(calls, "get_job_info")
                   /\ expected_build_number' = last_build_number' + 1
                   /\ retry' = retry /\ retry < FallbackRetries
             /\ retry' # retry =>
                   /\ retry' = retry + 1
                   /\ pc \in {"predict_ret", "api_build_info"}
                   /\ fb_slept' = fb_slept + (IF retry' < FallbackRetries
                                              THEN FallbackBackoff ELSE 0)]_vars

\* All three predictive attempts failed after the library returned no queue
\* item number: two sleeps of 5 seconds, then the definitive failure.
C14_Witness ==
    /\ op = "upload_and_build_with_queue_api"
    /\ pc = "done"
    /\ ret = AllFailedDict
    /\ retry = 3
    /\ fb_slept = 10
    /\ calls = <<"job_exists", "post_build", "build_job",
                 "get_job_info",
                 "get_queue_info", "get_queue_info", "get_queue_info",
                 "get_job_info",
                 "get_queue_info", "get_queue_info", "get_queue_info",
                 "get_job_info",
                 "get_queue_info", "get_queue_info", "get_queue_info">>

\* C15: whatever the collaborators answer, an operation that has not
\* returned can take its next step (no exception ends it without a dict), and
\* the dict it returns has a boolean success.  In
\* upload_and_build_with_queue_api success is True only after a build was
\* resolved and its get_build_info succeeded; in trigger_build_and_wait_result
\* and trigger_and_wait with monitoring only after monitor_build observed
\* SUCCESS with no failed status request and the request after it succeeded;
\* in the status-only wait_for_build_complete only after a status request
\* that succeeded and found the build ended.
C15_StructuredResultAlways ==
    LET last == IF st_log = <<>> THEN "none" ELSE st_log[Len(st_log)]
        observedSuccess ==
            /\ resolution = "resolved"
            /\ last = "SUCCESS"
            /\ build_result = "SUCCESS"
            /\ \A j \in 1..Len(st_log) : st_log[j] # "fail"
        atLoopBound ==
            pc = "monitor_loop" /\ Len(st_log) >= MaxPolls /\ build.building
        atCallBound ==
            pc = "predict_loop" /\ stage = "fallback" /\ Len(calls) >= MaxCalls
    IN /\ (pc # "done" /\ ~atLoopBound /\ ~atCallBound) => ENABLED Next
       /\ pc # "done" => ret = NoDict
       /\ pc = "done" =>
             /\ ret # NoDict
             /\ "success" \in DOMAIN ret
             /\ ret.success \in BOOLEAN
             /\ (ret.success /\ op \in ErrorKeyOps) =>
                   /\ observedSuccess
                   /\ result.success /\ result.result = "SUCCESS"
             /\ (ret.success /\ op = "trigger_and_wait") =>
                   \/ observedSuccess /\ calls[Len(calls)] = "get_build_info"
                   \/ /\ st_log = <<>> /\ resolution = "resolved"
                      /\ ret = TriggeredDict(op, actual_build_number,
                                             queue_item_number)
             /\ (ret.success /\ op = "upload_and_build_with_queue_api") =>
                   /\ resolution = "resolved"
                   /\ actual_build_number # None
                   /\ ret.build_number = actual_build_number
                   /\ calls[Len(calls)] = "get_build_info"
             /\ (ret.success /\ op = "wait_for_build_complete") =>
                   /\ last \notin {"none", "fail", "building"}
                   /\ ret.result = build.result

\* upload_and_build_with_queue_api resolved a build through the queue item of
\* the Location header, then get_build_info raised: the handler's dict.
C15_Witness ==
    /\ op = "upload_and_build_with_queue_api"
    /\ pc = "done"
    /\ stage = "primary"
    /\ resolution = "resolved"
    /\ ret = [success |-> FALSE, message |-> "exception"]
    /\ calls[Len(calls)] = "get_build_info"

\* C16: in wait_for_build_complete(show_logs=False) every status request is
\* made at an elapsed time below max_wait; a request that finds the build
\* ended returns that build's result in the same step, any other request is
\* followed by the 10 second sleep; a return without a request happens only
\* at an elapsed time of max_wait or more, makes no call and returns the
\* timeout dict (success False, the timeout error, the build number).
C16_DeadlineCheckedBeforeEveryPoll ==
    [][op = "wait_for_build_complete" =>
         LET polled == Len(st_log') = Len(st_log) + 1
             seen == st_log'[Len(st_log')]
         IN /\ polled =>
                  /\ pc = "status_loop" /\ elapsed < WaitTimeout
                  /\ Len(calls') = Len(calls) + 1
            /\ (polled /\ seen \notin {"fail", "building"}) =>
                  /\ pc' = "done"
                  /\ ret' = [success |-> TRUE, result |-> seen, duration |-> 1,
                             url |-> actual_build_number,
                             build_number |-> actual_build_number]
                  /\ seen = build.result
            /\ (polled /\ seen \in {"fail", "building"}) =>
                  /\ pc' = "status_loop" /\ ret' = NoDict
                  /\ elapsed' >= elapsed + 10
            /\ (pc = "status_loop" /\ pc' = "done" /\ ~polled) =>
                  /\ elapsed >= WaitTimeout
                  /\ calls' = calls
                  /\ ret' = [success |-> FALSE, error |-> "wait_timeout",
                             build_number |-> actual_build_number]
            /\ (pc = "status_loop" /\ elapsed >= WaitTimeout) =>
                  /\ ~polled
                  /\ ENABLED StatusTimeout]_vars

\* Three status requests found the build running or failed, the deadline
\* passed, and the timeout dict was returned.
C16_Witness ==
    /\ op = "wait_for_build_complete"
    /\ pc = "done"
    /\ ~ret.success /\ ret.error = "wait_timeout"
    /\ Len(st_log) = 3
    /\ \A j \in 1..3 : st_log[j] \in {"fail", "building"}
    /\ elapsed >= WaitTimeout

\* C17: monitor_build has no deadline.  While every status request it made
\* succeeded and found the build running it is still in its loop, however
\* long it has slept, and its next request is possible; once the server
\* reports the build as not running, monitor_build returns.
C17_MonitorEndsOnlyWithBuild ==
    LET monitoring == op \in ErrorKeyOps \cup {"trigger_and_wait"}
        allRunning == \A j \in 1..Len(st_log) : st_log[j] = "building"
    IN /\ []((monitoring /\ st_log # <<>> /\ allRunning) =>
              /\ pc = "monitor_loop"
              /\ mon_slept = 3 * Len(st_log)
              /\ Len(st_log) < MaxPolls =>
                    ENABLED (\E s \in BOOLEAN, c \in BOOLEAN : MonitorPoll(s, c)))
       /\ ((pc = "monitor_loop" /\ ~build.building)
              ~> (pc \notin {"monitor_loop", "monitor_end"}))

\* monitor_build is still polling after it has slept longer than the
\* wait_timeout its caller was given.
C17_Witness ==
    /\ op = "trigger_build_and_wait_result_improved"
    /\ pc = "monitor_loop"
    /\ build.building
    /\ Len(st_log) = MaxPolls
    /\ \A j \in 1..Len(st_log) : st_log[j] = "building"
    /\ mon_slept > WaitTimeout

\* C18: two concurrent invocations of the predictive strategy on a job whose
\* last build is 10.  An invocation that resolved a build returns a number
\* that is at least its expected number and at most the job's last build;
\* nothing ties the number to the invocation's own queue item (the witness:
\* both return 11).
C18_PredictiveResolvesAtLeastExpected ==
    \A c \in Invocations :
        (clients[c].pc = "done" /\ clients[c].actual_build_number # None) =>
           /\ \/ clients[c].expected_build_number = 1
              \/ clients[c].expected_build_number \in {11, 12, 13}
           /\ clients[c].actual_build_number >= clients[c].expected_build_number
           /\ clients[c].actual_build_number <= server.lastBuild
           /\ clients[c].queue_item_number # None

\* Both invocations read last build 10, computed 11, submitted, and both
\* resolved build 11.
C18_Witness ==
    \A c \in Invocations :
        /\ clients[c].pc = "done"
        /\ clients[c].expected_build_number = 11
        /\ clients[c].actual_build_number = 11

\* C19: when wait_for_build_start_improved returns a build number b, the
\* answers of its last iteration were: the job not listed in the queue, b the
\* job's last build with b >= expected, and build b running; that iteration
\* was one of the first max_wait.  When it returns None it has run max_wait
\* iterations.  While it is in its loop, the last iteration did not meet the
\* three conditions; an iteration that found the job queued slept a second.
C19_PredictiveAcceptsOnlyRunningLastBuild ==
    LET r == qlog[1]
        accepted(a) == /\ a.in_queue # "yes"
                       /\ a.lastBuild # None
                       /\ a.lastBuild >= expected_build_number
                       /\ a.building = "true"
    IN /\ pc = "predict_ret" =>
             IF actual_build_number # None
             THEN /\ accepted(r)
                  /\ actual_build_number = r.lastBuild
                  /\ i < MaxWait /\ polls = i + 1
             ELSE i = MaxWait /\ polls = MaxWait /\ slept = MaxWait
       /\ (pc = "predict_loop" /\ qlog # <<>>) =>
             /\ ~accepted(r)
             /\ polls = i /\ slept = i

\* The first iteration found the job queued; the second found build 2,
\* above the expected 1, running, and returned it.
C19_Witness ==
    /\ pc = "predict_ret"
    /\ op = "_trigger_build_and_wait_result_legacy"
    /\ expected_build_number = 1
    /\ actual_build_number = 2
    /\ polls = 2 /\ slept = 1
    /\ qlog = <<[in_queue |-> "no", lastBuild |-> 2, building |-> "true"]>>

\* C20: when wait_for_build_start_improved is entered (by
\* _trigger_build_and_wait_result_legacy or by an attempt of
\* _fallback_to_legacy_method), the expected number is at least 1 and the
\* read of the last build number it was computed from was made before every
\* submission of the build request (the upload POST, build_job).
C20_ExpectedReadBeforeSubmission ==
    LET Idx(names) == {j \in 1..Len(calls) : calls[j] \in names}
        reads == Idx({"get_job_info"})
        submissions == Idx({"post_build", "build_job"})
        entered == pc = "predict_loop" /\ polls = 0
    IN entered =>
          /\ expected_build_number >= 1
          /\ reads # {}
          /\ submissions # {}
          /\ \A g \in reads, b \in submissions :
                (\A h \in reads : h <= g) => g < b


\* C21: the console cursor of monitor_build is 0 when an invocation starts
\* and never negative; within an invocation it never decreases; after a
\* fetch that yields new text it is the length in characters of the text
\* just fetched; a failed fetch, or a fetch whose text is not longer than
\* the cursor, leaves it unchanged; a new invocation starts from 0 whatever the previous one
\* reached.
C21_CursorFollowsFetchedText ==
    /\ [](tail.pc # "idle" =>
            /\ tail.last_log_position >= 0
            /\ tail.st_seq = <<>> => tail.last_log_position = 0
            /\ tail.fetch = "new" =>
                  tail.last_log_position = StrLen(tail.console_output)
            /\ tail.fetch = "same" =>
                  StrLen(tail.console_output) <= tail.last_log_position)
    /\ [][LET same_invocation == tail'.build_number = tail.build_number
              polled == same_invocation /\ tail'.st_seq # tail.st_seq
          IN /\ same_invocation =>
                   tail'.last_log_position >= tail.last_log_position
             /\ polled /\ tail'.fetch \in {"raised", "same", "none"} =>
                   tail'.last_log_position = tail.last_log_position
             /\ polled /\ tail'.fetch = "new" =>
                   /\ StrLen(tail.log) > tail.last_log_position
                   /\ tail'.last_log_position = StrLen(tail.log)
             /\ ~same_invocation => tail'.last_log_position = 0]_vars

\* The second invocation has fetched a text of 7 characters, then one of 15,
\* and its cursor is 15, after the first invocation had moved its own cursor.
C21_Witness ==
    /\ tail.pc # "idle"
    /\ tail.build_number = 2
    /\ tail.fetch = "new"
    /\ tail.console_output = <<"error:", "\n", "digest:", "\n">>
    /\ tail.new_output = <<"digest:", "\n">>
    /\ tail.last_log_position = 15
    /\ Len(tail.st_seq) = 2


\* C22: a fetch hands to processing exactly the suffix of the fetched text
\* beyond the cursor, and nothing when the fetch fails or that suffix is
\* empty; while the log has been append-only, the concatenation of the chunks
\* handed to processing in the invocation is the text of the last successful
\* fetch.
C22_ChunksMakeUpFetchedText ==
    /\ [](tail.pc # "idle" /\ tail.append_only =>
              tail.delivered = tail.console_output)
    /\ [][LET polled == /\ tail'.build_number = tail.build_number
                        /\ tail'.st_seq # tail.st_seq
          IN polled =>
               /\ tail'.fetch = "new" =>
                     /\ tail'.new_output =
                           Suffix(tail.log, tail.last_log_position)
                     /\ tail'.new_output # <<>>
               /\ tail'.fetch # "new" => tail'.new_output = <<>>]_vars

\* The third fetch of an invocation handed over a last chunk of one keyword
\* or line break that completed an append-only text of 4 of them.
C22_Witness ==
    /\ tail.pc # "idle"
    /\ tail.append_only
    /\ tail.fetch = "new"
    /\ Len(tail.st_seq) = 3
    /\ Len(tail.new_output) = 1
    /\ Len(tail.delivered) = 4
    /\ tail.console_output = tail.log


\* C23: completion detection of monitor_build is a function of the status
\* responses alone: whatever the console requests returned (any text, or a
\* failure), the loop has continued exactly while the status responses said
\* "building", it has ended at the first other response, and build_complete,
\* build_result and the returned value are those of that response.  Two runs
\* with the same status responses therefore make the same number of status
\* requests and return the same value.
C23_CompletionIndependentOfConsole ==
    tail.pc # "idle" =>
        LET n == Len(tail.st_seq)
            last == IF n = 0 THEN "building" ELSE tail.st_seq[n]
            complete == last \notin {"building", "fail"}
        IN /\ \A k \in 1..(n - 1) : tail.st_seq[k] = "building"
           /\ (tail.pc = "loop") = (last = "building")
           /\ tail.build_complete = complete
           /\ tail.build_result = IF complete THEN last ELSE "NULL"
           /\ tail.pc = "returned" => tail.success = (last = "SUCCESS")
           /\ tail.pc # "returned" => ~tail.success

\* monitor_build returned True after three status requests although its last
\* console request failed, after earlier ones had delivered text.
C23_Witness ==
    /\ tail.pc = "returned"
    /\ tail.success
    /\ Len(tail.st_seq) = 3
    /\ tail.fetch = "raised"
    /\ tail.delivered # <<>>


\* C24: in one monitoring session no category/value pair is printed twice by
\* the non-verbose keyword filter, also when the same line arrives again.
C24_EachPairEmittedOnce ==
    tail.pc # "idle" =>
        \A j, k \in 1..Len(tail.emitted) :
            j # k => tail.emitted[j] # tail.emitted[k]


\* C25: a build number returned by a successful resolution is strictly
\* positive; from then on the operation keeps that number, and the dict of
\* the Completion Waiter and the final result carry it as build_number.
C25_ResolvedNumberPositiveAndStable ==
    /\ [](resolution = "resolved" =>
            /\ actual_build_number \in 1..MaxBuild
            /\ "build_number" \in DOMAIN result =>
                  result.build_number = actual_build_number
            /\ pc = "done" /\ "build_number" \in DOMAIN ret =>
                  ret.build_number = actual_build_number)
    /\ [][resolution = "resolved" =>
            /\ resolution' = "resolved"
            /\ actual_build_number' = actual_build_number]_vars


\* C26: every call an operation issues is a build submission or a read
\* (existence, job, queue or build information, console text): none stops,
\* aborts or cancels a build or a queue item, and no step of the client, in
\* particular the return after a failed or timed-out resolution or wait,
\* changes the record of the remote build.
C26_NoCancellingCall ==
    /\ [](LET Submissions == {"post_build", "build_job"}
              Reads == {"job_exists", "get_job_info", "queue_item",
                        "get_queue_info", "get_build_info",
                        "get_build_console_output"}
          IN \A k \in 1..Len(calls) : calls[k] \in Submissions \cup Reads)
    /\ [][pc' # pc \/ calls' # calls =>
            build' = build /\ frozen' = frozen]_vars

\* The status-only wait timed out and returned while the build is running;
\* the last call was a status read.
C26_Witness ==
    /\ pc = "done"
    /\ "error" \in DOMAIN ret
    /\ ret.error = "wait_timeout"
    /\ build.building
    /\ calls # <<>>
    /\ calls[Len(calls)] = "get_build_info"


\* C27 as stated: _clean_ansi_sequences applied twice gives the result of
\* applying it once, for every text.
C27_CleanTwiceIsCleanOnce ==
    ansi.pc = "twice" => ansi.twice = ansi.once

\* C27, amended: the result of _clean_ansi_sequences is the text without the
\* characters of the sequences the pattern matches, the others unchanged and
\* in order; one matched sequence followed by "OK" yields "OK"; and when
\* every ESC of the text starts a matched sequence, the result contains no
\* ESC and applying the function again changes nothing.
C27_CleanRemovesMatchedSequences ==
    ansi.pc \in {"once", "twice"} =>
        LET text == ansi.text
            Removed == {q \in 1..Len(text) :
                           \E p \in 1..q : ansi_escape(text, p) >= q}
            Kept == (1..Len(text)) \ Removed
            Nth(k) == CHOOSE q \in Kept :
                          Cardinality({r \in Kept : r <= q}) = k
            AllMatched == \A p \in 1..Len(text) :
                              text[p] = "ESC" => ansi_escape(text, p) # 0
        IN /\ Len(ansi.once) = Cardinality(Kept)
           /\ \A k \in 1..Len(ansi.once) : ansi.once[k] = text[Nth(k)]
           /\ (/\ Len(text) >= 4
               /\ ansi_escape(text, 1) = Len(text) - 2
               /\ SubSeq(text, Len(text) - 1, Len(text)) = <<"O", "K">>)
                 => ansi.once = <<"O", "K">>
           /\ AllMatched =>
                 /\ \A k \in 1..Len(ansi.once) : ansi.once[k] # "ESC"
                 /\ ansi.pc = "twice" => ansi.twice = ansi.once

\* The color sequence ESC [ m followed by OK was cleaned to OK, and cleaning
\* the result again left it as it was.
C27_Witness ==
    /\ ansi.pc = "twice"
    /\ ansi.text = <<"ESC", "[", "m", "O", "K">>
    /\ ansi.once = <<"O", "K">>
    /\ ansi.twice = <<"O", "K">>


\* C28: a result of trigger_build_and_wait_result (either implementation)
\* for a failed resolution is a failure without build_number, produced
\* without any status request; every result produced after the Completion
\* Waiter was invoked carries the resolved build number as build_number.
C28_ResolutionFailureHasNoBuildNumber ==
    pc = "done" /\ op \in ErrorKeyOps =>
        /\ resolution = "unresolved" =>
              /\ ~ret.success
              /\ "error" \in DOMAIN ret
              /\ "build_number" \notin DOMAIN ret
              /\ st_log = <<>>
        /\ resolution = "resolved" =>
              /\ st_log # <<>>
              /\ "build_number" \in DOMAIN ret
              /\ ret.build_number = actual_build_number
              /\ actual_build_number # None
        /\ st_log # <<>> => resolution = "resolved"

\* The queue resolution of trigger_build_and_wait_result_improved failed
\* (queue item reclaimed or iterations exhausted) and the failure was
\* returned.
C28_Witness ==
    /\ pc = "done"
    /\ op = "trigger_build_and_wait_result_improved"
    /\ resolution = "unresolved"
    /\ ret = [success |-> FALSE, error |-> "wait_start_failed"]
    /\ "queue_item" \in {calls[k] : k \in 1..Len(calls)}


\* C29: upload_and_build_with_queue_api submits one build request (the POST)
\* when the accepted POST carries a parseable queue Location, and two (the
\* POST, then build_job of the client library) when it does not; nothing of
\* the first submission is retained on that path, the queue item resolved by
\* the library method is the one build_job returned, and the build number and
\* queue item number of the library method's result are those.
C29_OneSubmissionOrPostThenBuildJob ==
    /\ [](op = "upload_and_build_with_queue_api" =>
            LET Count(name) ==
                    Cardinality({k \in 1..Len(calls) : calls[k] = name})
                First(name) ==
                    CHOOSE k \in 1..Len(calls) : calls[k] = name
            IN /\ Count("post_build") <= 1 /\ Count("build_job") <= 1
               /\ stage = "primary" => Count("build_job") = 0
               /\ stage = "primary" /\ resolution # "none" =>
                     Count("post_build") = 1
               /\ stage # "primary" =>
                     /\ Count("post_build") = 1 /\ Count("build_job") = 1
                     /\ First("post_build") < First("build_job")
               /\ pc = "lib_build_job" => queue_item_number = None
               /\ pc = "done" /\ stage = "library" /\ ret.success =>
                     /\ ret.queue_item_number = queue_item_number
                     /\ ret.build_number = actual_build_number
                     /\ actual_build_number # None)
    /\ [][op = "upload_and_build_with_queue_api" =>
            /\ stage = "primary" /\ stage' = "library" =>
                  /\ calls' = Append(calls, "build_job")
                  /\ queue_item_number' # None
            /\ stage = "library" /\ stage' = "library" =>
                  queue_item_number' = queue_item_number
            /\ stage = "library" /\ calls' # calls /\ pc = "queue_loop" =>
                  calls' = Append(calls, "queue_item")]_vars

\* The POST carried no parseable Location; the build was submitted again
\* through build_job, its queue item was resolved and the library method
\* returned that build.
C29_Witness ==
    /\ pc = "done"
    /\ op = "upload_and_build_with_queue_api"
    /\ stage = "library"
    /\ ret.success
    /\ ret.message = "triggered_library"
    /\ calls[2] = "post_build" /\ calls[3] = "build_job"


\* C30: _fallback_to_legacy_method reads the job's last build number after
\* the build requests were submitted, and an attempt returns a build number
\* only when the last answer reported that build as the running last build
\* with a number of at least expected, which is one more than the number read
\* at the start of the attempt; an attempt that is never answered with a
\* later build returns None, and after the third such attempt the operation
\* returns the "all methods failed" result, whether or not the triggered build
\* is running.
C30_FallbackReturnsOnlyLaterBuilds ==
    /\ [](stage = "fallback" =>
            LET Idx(names) == {j \in 1..Len(calls) : calls[j] \in names}
                reads == Idx({"get_job_info"})
                submissions == Idx({"post_build", "build_job"})
            IN /\ Cardinality(submissions) = 2
               /\ \A g \in reads, b \in submissions : b < g
               /\ pc \in {"predict_loop", "predict_ret"} =>
                     /\ expected_build_number = last_build_number + 1
                     /\ reads # {}
               /\ pc = "predict_ret" /\ actual_build_number # None =>
                     /\ qlog # <<>>
                     /\ qlog[1].lastBuild = actual_build_number
                     /\ qlog[1].building = "true"
                     /\ actual_build_number > last_build_number
                     /\ actual_build_number >= expected_build_number
               /\ pc = "predict_ret" /\ polls = MaxWait
                     /\ qlog[1].lastBuild < expected_build_number =>
                     actual_build_number = None
               /\ pc = "done" /\ ret = AllFailedDict =>
                     retry = FallbackRetries)
    /\ [][stage = "fallback" /\ pc = "predict_ret"
            /\ actual_build_number = None =>
               IF retry = FallbackRetries - 1
               THEN pc' = "done" /\ ret' = AllFailedDict
               ELSE pc' = "fb_get_current" /\ retry' = retry + 1]_vars

\* The third attempt read last build 1, was answered in every iteration that
\* the job is not queued and its last build is still 1, and returned None
\* while the triggered build is running.
C30_Witness ==
    /\ stage = "fallback"
    /\ pc = "predict_ret"
    /\ retry = FallbackRetries - 1
    /\ last_build_number = 1
    /\ expected_build_number = 2
    /\ actual_build_number = None
    /\ polls = MaxWait
    /\ qlog = <<[in_queue |-> "no", lastBuild |-> 1, building |-> "none"]>>
    /\ build.building


\* C31: wait_for_build_start reads its baseline after the submission; it
\* issues at most max_wait polls; a number it returns is the job's last build
\* of the last answer, reported as running and above the baseline (any build
\* when there is no baseline), so never the baseline build itself; it returns
\* None only after max_wait polls.
C31_WfsReturnsOnlyNewRunningBuild ==
    pc \in {"wfs_loop", "wfs_ret"} =>
        LET Idx(names) == {j \in 1..Len(calls) : calls[j] \in names}
            reads == Idx({"get_job_info"})
            submissions == Idx({"post_build", "build_job"})
        IN /\ submissions # {} /\ reads # {}
           /\ \A g \in reads, b \in submissions : b < g
           /\ polls <= MaxWait
           /\ Cardinality(reads) = polls + 1
           /\ pc = "wfs_ret" /\ actual_build_number # None =>
                 /\ qlog[1].lastBuild = actual_build_number
                 /\ ~qlog[1].job_raised
                 /\ qlog[1].building = "true"
                 /\ actual_build_number > last_build_number
           /\ pc = "wfs_ret" /\ actual_build_number = None =>
                 polls = MaxWait
           /\ pc = "wfs_ret" /\ qlog # <<>> /\ polls = MaxWait
                 /\ (qlog[1].building # "true"
                        \/ qlog[1].lastBuild <= last_build_number) =>
                 actual_build_number = None

\* The baseline read found build 1, which is the triggered build; every poll
\* reported build 1 as the last build, and after max_wait polls the resolver
\* returned None.
C31_Witness ==
    /\ pc = "wfs_ret"
    /\ last_build_number = 1
    /\ actual_build_number = None
    /\ polls = MaxWait
    /\ qlog = <<[job_raised |-> FALSE, lastBuild |-> 1, building |-> "none"]>>
    /\ build.building


\* C32 as stated: _try_jenkins_library_method enters the predictive fallback
\* only when build_job raised or returned no queue item number, so no queue
\* item number is known in the fallback; and when the queue item of a number
\* returned by build_job is not resolved, the operation returns success=false
\* at once, outside the fallback.
C32_FallbackOnlyWithoutLibraryNumber ==
    /\ stage = "fallback" => queue_item_number = None
    /\ stage = "library" /\ resolution = "unresolved" =>
          /\ pc = "done"
          /\ ret = QueueApiUnresolvedDict("library", queue_item_number)
          /\ queue_item_number # None


\* C33: the record of wait_for_build_complete in log-streaming mode and of
\* trigger_and_wait has the success monitor_build returned and the result of
\* the build-info query made after the loop; when the server keeps a finished
\* build frozen and monitor_build ended on a non-running observation, success
\* is True exactly when that result is SUCCESS; when monitor_build ended on a
\* failed status request, success is False whatever the query reports.
C33_SuccessFromMonitorResultFromQuery ==
    LET github == op = "trigger_and_wait"
        rec == IF github THEN ret ELSE result
        key == IF github THEN "status" ELSE "result"
        n == Len(st_log)
    IN (/\ \/ github /\ pc = "done"
           \/ op \in ErrorKeyOps /\ pc = "wfc_ret"
        /\ n > 0)
       => /\ key \in DOMAIN rec =>
                /\ rec.success = mon_success
                /\ rec[key] = build.result
                /\ rec.duration = (IF build.building THEN 0 ELSE 1)
                /\ rec.url = actual_build_number
          /\ key \notin DOMAIN rec => ~rec.success
          /\ mon_success = (build_result = "SUCCESS")
          /\ (frozen /\ st_log[n] \in Results /\ key \in DOMAIN rec) =>
                rec.success = (rec[key] = "SUCCESS")
          /\ st_log[n] = "fail" => ~rec.success

\* monitor_build ended on a failed status request while the build was
\* running; the build then ended with SUCCESS, which the later query reports
\* in a record whose success is False.
C33_Witness ==
    /\ op \in ErrorKeyOps
    /\ pc = "wfc_ret"
    /\ st_log = <<"building", "fail">>
    /\ "result" \in DOMAIN result
    /\ result.result = "SUCCESS"
    /\ ~result.success


C35_StatusOnlyPrecedence ==
    op = "get_build_status_only" =>
        /\ \A j \in 1..Len(calls) : calls[j] \notin {"post_build", "build_job"}
        /\ pc = "done" =>
              LET listed == is_job_in_queue(qlog[1].in_queue)
              IN /\ listed =>
                       /\ ret.success /\ ret.status = "PENDING"
                       /\ calls = <<"get_queue_info">>
                 /\ ~listed /\ last_build_number = None =>
                       /\ ~ret.success
                       /\ calls = <<"get_queue_info", "get_job_info">>
                 /\ ~listed /\ last_build_number # None =>
                       /\ calls = <<"get_queue_info", "get_job_info", "get_build_info">>
                       /\ \/ ~ret.success /\ "status" \notin DOMAIN ret
                          \/ /\ ret.success
                             /\ ret.build_number = last_build_number
                             /\ ret.status = (IF build_result = "NULL"
                                              THEN "BUILDING" ELSE build_result)
                             /\ ("duration" \in DOMAIN ret) <=> build_result # "NULL"

\* The job is not in the pending-queue listing and its last build 2 ended
\* with UNSTABLE, which is the status reported.
C35_Witness ==
    /\ op = "get_build_status_only"
    /\ pc = "done"
    /\ qlog = <<[in_queue |-> "no"]>>
    /\ last_build_number = 2
    /\ build_result = "UNSTABLE"
    /\ ret.success
    /\ ret.status = "UNSTABLE"


\* C36: trigger_build of trigger_build.py submits without a job-existence
\* check; its resolver makes at most max_wait polls of its own queue URL,
\* returns only the executable.number of an answer 200, goes on after every
\* other answer (404 included), and returns None after max_wait polls without
\* an executable, or with no poll at all when the Location header is missing;
\* after a 201 the operation returns success=True with the resolver's value
\* as build_number, None included.
C36_RequestsVariantSucceedsWithoutNumber ==
    op = "trigger_build_requests" =>
        LET n == Len(qlog)
            IsExecutable(resp) == resp.status_code = 200 /\ resp.executable = "object"
        IN /\ \A j \in 1..Len(calls) : calls[j] # "job_exists"
           /\ pc # "tb_post" => calls[1] = "post_build"
           /\ polls = n /\ polls <= MaxWait
           /\ \A j \in 1..Len(calls) : j > 1 => calls[j] = "queue_item"
           /\ Len(calls) = (IF pc = "tb_post" THEN 0 ELSE 1 + polls)
           /\ \A j \in 1..n : IsExecutable(qlog[j]) => j = n /\ pc \in {"tb_ret", "done"}
           /\ pc = "tb_loop" => actual_build_number = None
           /\ (pc \in {"tb_ret", "done"} /\ actual_build_number # None) =>
                 /\ IsExecutable(qlog[n])
                 /\ qlog[n].number = actual_build_number
           /\ (pc \in {"tb_ret", "done"} /\ queue_item_number = None) =>
                 polls = 0 /\ actual_build_number = None
           /\ (pc = "tb_ret" /\ queue_item_number # None
                 /\ \A j \in 1..n : ~IsExecutable(qlog[j])) =>
                 polls = MaxWait /\ actual_build_number = None
           /\ pc = "done" =>
                 IF Len(calls) > 1 \/ "queue_url" \in DOMAIN ret
                 THEN ret = TbDict(queue_item_number, actual_build_number)
                 ELSE ~ret.success /\ "build_number" \notin DOMAIN ret

\* Every one of the max_wait polls was answered 404; the resolver returned
\* None and trigger_build returned success=True with build_number None.
C36_Witness ==
    /\ op = "trigger_build_requests"
    /\ pc = "done"
    /\ polls = MaxWait
    /\ \A j \in 1..Len(qlog) : qlog[j].status_code = 404
    /\ ret.success
    /\ ret.build_number = None
    /\ ret.queue_url # None


\* C37: _process_console_output prints at most one annotation for a line and
\* none for a blank line; the annotation is that of the first of these that
\* applies to the line: [STAGE_START], [STAGE_END], [BUILD_SUCCESS],
\* [BUILD_INFO], a pipeline stage line, an image keyword, a build step
\* keyword, the verbose allowlist; a line that matches only the verbose
\* allowlist is printed exactly when verbose mode is on.
C37_OneAnnotationInFixedPrecedence ==
    annot.pc = "done" =>
        LET cl == cleaned_line(annot.line)
            e == annot.out.emitted
            Has(keyword) == Contains(cl, keyword)
            marker == \E m \in Markers : Has(m)
            pipeline == Has("[Pipeline] stage") /\ Has("}")
            image == \E k \in ImageKeywords : Has(k)
            step == \E p \in ImportantSteps : Has(p)
            allowed == \E p \in VerboseAllowlist : Has(p)
            Category(c) == Len(e) = 1 /\ e[1][1] = c
        IN /\ Len(e) <= 1
           /\ IsBlank(annot.line) => e = <<>>
           /\ Has("[STAGE_START]") => Category("stage_start")
           /\ (Has("[STAGE_END]") /\ ~Has("[STAGE_START]")) =>
                 Category("stage_end")
           /\ (Has("[BUILD_SUCCESS]") /\ ~Has("[STAGE_START]")
                 /\ ~Has("[STAGE_END]")) => Category("build_success")
           /\ (Has("[BUILD_INFO]") /\ ~Has("[STAGE_START]")
                 /\ ~Has("[STAGE_END]") /\ ~Has("[BUILD_SUCCESS]")) =>
                 Category("build_info")
           /\ (~marker /\ pipeline) =>
                 IF Has("(") /\ Has(")") THEN Category("pipeline_stage")
                 ELSE e = <<>>
           /\ (~marker /\ ~pipeline /\ image) =>
                 \/ Category("digest") /\ Has("digest:")
                 \/ Category("image") /\ ~Has("digest:")
                 \/ e = <<>> /\ annot.displayed_info # {}
           /\ (~marker /\ ~pipeline /\ ~image /\ step) => Category("step")
           /\ (~marker /\ ~pipeline /\ ~image /\ ~step /\ allowed) =>
                 IF annot.verbose THEN Category("verbose") ELSE e = <<>>
           /\ (~marker /\ ~pipeline /\ ~image /\ ~step /\ ~allowed) =>
                 e = <<>>

\* A line with a digest keyword, [BUILD_INFO] and [STAGE_END] was printed
\* once, as the end of a stage.
C37_Witness ==
    /\ annot.pc = "done"
    /\ annot.line = <<"digest:", "[BUILD_INFO]", "[STAGE_END]">>
    /\ annot.out.emitted = <<<<"stage_end", <<>>>>>>

====
